---- MODULE Spec2Model ----
(***************************************************************************)
(* Market synchronisation and shock detection of QuantCalendar.            *)
(*                                                                         *)
(* Numbers.  A probability p is held as the integer p * 10000 (so 0.05 is  *)
(* 500 and one unit is 0.0001); arithmetic on it is exact.  Time is the    *)
(* value of Date.now() in milliseconds, counted from the midnight before   *)
(* the day before the process started (to keep it inside TLC's integers).  *)
(* An optional value (T | null) is a sequence of length at most one.       *)
(***************************************************************************)
EXTENDS Integers, Sequences, FiniteSets, TLC

VARIABLES
    now,            \* Date.now()
    recentShocks,   \* shockDetector: const recentShocks: MarketShock[]
    shockLog,       \* history: every shock detectShock ever returned, in order
    lastCall,       \* history: the last call of the detector's interface and its result
    normIn,         \* normalizeGammaEvent: its arguments (event, existingMarketIds)
    normOut,        \* normalizeGammaEvent: which revision ran, what it kept and returned
    revision,       \* which revision of marketUpdater the process runs
    marketDocs,     \* Firestore: the collection .../markets, document id -> document
    alerts,         \* Firestore: the collection .../marketShockAlerts, a set of documents
    cyc,            \* per caller of updateMarkets: where it stands and its locals
    applied,        \* history: per document, the upstream record last written to it
    cycles,         \* number of cycles started
    faults          \* number of storage failures injected

detectorVars == <<now, recentShocks, shockLog, lastCall>>
normVars == <<normIn, normOut>>
storeVars == <<revision, marketDocs, alerts, cyc, applied, cycles, faults>>

vars == <<now, recentShocks, shockLog, lastCall, normIn, normOut,
          revision, marketDocs, alerts, cyc, applied, cycles, faults>>

----------------------------------------------------------------------------
(* Bounds of the model *)

\* the clock stops after this many ticks
MaxTicks == 5
\* detectShock is called at most this many times with a shock-sized move
MaxShocks == 5
\* an upstream event handed to normalizeGammaEvent bundles at most this many sub-markets
MaxEventMarkets == 6
\* at most this many reconciliation cycles are started
MaxCycles == 2
\* at most this many storage calls fail
MaxFaults == 1
\* during reconciliation the clock advances at most this many ticks
MaxCycleTicks == 1

----------------------------------------------------------------------------
(* Program constants *)

\* const SHOCK_THRESHOLD = 0.05
SHOCK_THRESHOLD == 500
\* const SHOCK_COUNT_THRESHOLD = 5
SHOCK_COUNT_THRESHOLD == 5
\* const SHOCK_WINDOW_MS = 15 * 60 * 1000
SHOCK_WINDOW_MS == 15 * 60 * 1000

DayMs == 24 * 60 * 60 * 1000
\* the process starts at noon of day 1
StartTime == DayMs + (DayMs \div 2)
\* the clock advances by half a window
TickMs == SHOCK_WINDOW_MS \div 2
EndTime == StartTime + MaxTicks * TickMs

----------------------------------------------------------------------------
(* Helpers *)

None == <<>>
Some(x) == <<x>>

Abs(x) == IF x < 0 THEN 0 - x ELSE x

----------------------------------------------------------------------------
(* Shock detector *)

\* delta >= SHOCK_THRESHOLD
IsShockDelta_strict(delta) == delta > SHOCK_THRESHOLD
IsShockDelta(delta) == delta >= SHOCK_THRESHOLD

\* const shock: MarketShock = {...}
MakeShock(marketId, previousProbability, newProbability, t) ==
    [marketId |-> marketId,
     previousProbability |-> previousProbability,
     newProbability |-> newProbability,
     delta |-> Abs(newProbability - previousProbability),
     timestamp |-> t]

RECURSIVE ShiftWhileOlder(_, _)
\* while (recentShocks.length > 0 && recentShocks[0].timestamp < cutoff) recentShocks.shift()
ShiftWhileOlder(list, cutoff) ==
    IF list # <<>> /\ Head(list).timestamp < cutoff
    THEN ShiftWhileOlder(Tail(list), cutoff)
    ELSE list

\* detectShock: its return value
detectShockResult(marketId, previousProbability, newProbability, t) ==
    IF IsShockDelta(Abs(newProbability - previousProbability))
    THEN Some(MakeShock(marketId, previousProbability, newProbability, t))
    ELSE None

\* detectShock: the list it leaves
detectShockList_prune(list, marketId, previousProbability, newProbability, t) ==
    ShiftWhileOlder(
        IF IsShockDelta(Abs(newProbability - previousProbability))
        THEN Append(list, MakeShock(marketId, previousProbability, newProbability, t))
        ELSE list,
        t - SHOCK_WINDOW_MS)
detectShockList_append(list, marketId, previousProbability, newProbability, t) ==
    IF IsShockDelta(Abs(newProbability - previousProbability))
    THEN Append(list, MakeShock(marketId, previousProbability, newProbability, t))
    ELSE list
detectShockList_unshift(list, marketId, previousProbability, newProbability, t) ==
    IF IsShockDelta(Abs(newProbability - previousProbability))
    THEN ShiftWhileOlder(
            <<MakeShock(marketId, previousProbability, newProbability, t)>> \o list,
            t - SHOCK_WINDOW_MS)
    ELSE list
detectShockList(list, marketId, previousProbability, newProbability, t) ==
    IF IsShockDelta(Abs(newProbability - previousProbability))
    THEN ShiftWhileOlder(
            Append(list, MakeShock(marketId, previousProbability, newProbability, t)),
            t - SHOCK_WINDOW_MS)
    ELSE list

\* recentShocks.filter(s => s.timestamp >= windowStart)
InWindow_all(s, windowStart) == TRUE
InWindow(s, windowStart) == s.timestamp >= windowStart

WindowShocks(list, t) ==
    SelectSeq(list, LAMBDA s : InWindow(s, t - SHOCK_WINDOW_MS))

\* windowShocks.length >= SHOCK_COUNT_THRESHOLD
ReachesCount_strict(n) == n > SHOCK_COUNT_THRESHOLD
ReachesCount_any(n) == n >= 1
ReachesCount(n) == n >= SHOCK_COUNT_THRESHOLD

\* checkShockAlert: its return value
checkShockAlertResult(list, t) ==
    LET windowShocks == WindowShocks(list, t)
    IN  IF ReachesCount(Len(windowShocks))
        THEN Some([id |-> t,                      \* `shock-${Date.now()}`
                   shockCount |-> Len(windowShocks),
                   windowStart |-> t - SHOCK_WINDOW_MS,
                   windowEnd |-> t,
                   shocks |-> windowShocks,
                   createdAt |-> t])
        ELSE None

\* checkShockAlert: the list it leaves (filter builds a new array)
checkShockAlertList_drain(list, t) ==
    IF checkShockAlertResult(list, t) # None THEN <<>> ELSE list
checkShockAlertList(list, t) == list

\* cleanupOldShocks: the list it leaves
cleanupOldShocksList_keep(list, t) == list
cleanupOldShocksList(list, t) == ShiftWhileOlder(list, t - (SHOCK_WINDOW_MS * 2))

----------------------------------------------------------------------------
(* The detector driven through its exported interface *)

MarketIds == {"m1", "m2"}

\* the calls of detectShock: (m1, 0.40 -> 0.46), (m2, 0.45 -> 0.40),
\* (m1, 0.40 -> 0.44), (m2, 0.40 -> 0.4499)
DetectCalls == {<<"m1", 4000, 4600>>, <<"m2", 4500, 4000>>,
                <<"m1", 4000, 4400>>, <<"m2", 4000, 4499>>}

NoCall == [op |-> "none", marketId |-> "", previous |-> 0, new |-> 0,
           at |-> 0, before |-> <<>>, ret |-> None]

NormIdle ==
    /\ normIn = [event |-> [title |-> "", tags |-> "", bare |-> None, markets |-> <<>>],
                 ids |-> {}]
    /\ normOut = [by |-> "none", kept |-> <<>>, out |-> <<>>]

StoreIdle ==
    /\ revision = "none"
    /\ marketDocs = <<>>
    /\ alerts = {}
    /\ cyc = <<>>
    /\ applied = <<>>
    /\ cycles = 0
    /\ faults = 0

DetectorInit ==
    /\ now = StartTime
    /\ recentShocks = <<>>
    /\ shockLog = <<>>
    /\ lastCall = NoCall
    /\ NormIdle
    /\ StoreIdle

Tick ==
    /\ now + TickMs <= EndTime
    /\ now' = now + TickMs
    /\ UNCHANGED <<recentShocks, shockLog, lastCall, normVars, storeVars>>

DetectShock(marketId, previous, new) ==
    LET ret == detectShockResult(marketId, previous, new, now)
    IN  /\ Len(shockLog) < MaxShocks
        /\ recentShocks' = detectShockList(recentShocks, marketId, previous, new, now)
        /\ shockLog' = shockLog \o ret
        /\ lastCall' = [op |-> "detectShock", marketId |-> marketId,
                        previous |-> previous, new |-> new, at |-> now,
                        before |-> recentShocks, ret |-> ret]
        /\ UNCHANGED <<now, normVars, storeVars>>

CheckShockAlert ==
    /\ lastCall' = [op |-> "checkShockAlert", marketId |-> "", previous |-> 0,
                    new |-> 0, at |-> now, before |-> recentShocks,
                    ret |-> checkShockAlertResult(recentShocks, now)]
    /\ recentShocks' = checkShockAlertList(recentShocks, now)
    /\ UNCHANGED <<now, shockLog, normVars, storeVars>>

CleanupOldShocks ==
    /\ recentShocks' = cleanupOldShocksList(recentShocks, now)
    /\ lastCall' = [op |-> "cleanupOldShocks", marketId |-> "", previous |-> 0,
                    new |-> 0, at |-> now, before |-> recentShocks, ret |-> None]
    /\ UNCHANGED <<now, shockLog, normVars, storeVars>>

DetectorNext ==
    \/ Tick
    \/ \E c \in DetectCalls : DetectShock(c[1], c[2], c[3])
    \/ CheckShockAlert
    \/ CleanupOldShocks

SpecDetector == DetectorInit /\ [][DetectorNext]_vars

----------------------------------------------------------------------------
(* Upstream records (types.ts: GammaMarket, GammaEvent)                    *)
(*                                                                         *)
(* A JavaScript value that may be a number is [k, v]: k = "num" with the   *)
(* number v, "nan" for a value Number() turns into NaN, "undef" when the   *)
(* field is absent.  A volume may also be k = "str": a formatted string    *)
(* such as "$40,000" that parses to v, or "junk": a string with no number. *)

Num(v) == [k |-> "num", v |-> v]
Str(v) == [k |-> "str", v |-> v]
NaNVal == [k |-> "nan", v |-> 0]
Junk == [k |-> "junk", v |-> 0]
Undef == [k |-> "undef", v |-> 0]

\* Number(x) || 0
NumberOrZero(x) == IF x.k = "num" THEN x.v ELSE 0

\* typeof market.volume === 'string' ? parseFloat(market.volume.replace(/[,$\s]/g, ''))
\*                                   : Number(market.volume) || 0
ParsedVolume(volume) ==
    CASE volume.k = "str" -> Num(volume.v)
      [] volume.k = "junk" -> NaNVal
      [] OTHER -> Num(NumberOrZero(volume))

\* x < y on JavaScript numbers: false when either side is NaN
JsLess(x, y) == x.k = "num" /\ y.k = "num" /\ x.v < y.v

\* (x).toFixed(2), read back by parseFloat: the nearest multiple of 0.01
ToFixed2_raw(v) == v
ToFixed2(v) == ((v + 50) \div 100) * 100

\* a date string: kind "plain" is YYYY-MM-DD and t the local midnight that
\* starts the day, "iso" carries a time and t is its instant, "none" is absent
Plain(t) == [kind |-> "plain", t |-> t]
Iso(t) == [kind |-> "iso", t |-> t]
NoDate == [kind |-> "none", t |-> 0]

GammaMarket(id, volume, closed, resolved, yesPrice) ==
    [id |-> id, question |-> "Q-" \o id, volume |-> volume, endDate |-> Iso(20 * DayMs),
     closed |-> closed, resolved |-> resolved, yesPrice |-> yesPrice,
     lastTradePrice |-> Undef, bestBid |-> Undef, price |-> Undef, yes_price |-> Undef,
     outcomePrice0 |-> Undef,
     tags |-> "none"]     \* "none": absent, "bad": present and not an array

----------------------------------------------------------------------------
(* normalizeGammaEvent, in its three revisions *)

\* if (volume < 20000) return false
VolumeTooLow_off(volume) == FALSE
VolumeTooLow(volume) == JsLess(ParsedVolume(volume), Num(20000))

\* if (yesPrice <= 0.01 || yesPrice >= 0.99) return false
OutsideBand_open(yesPrice) ==
    NumberOrZero(yesPrice) < 100 \/ NumberOrZero(yesPrice) > 9900
OutsideBand(yesPrice) ==
    NumberOrZero(yesPrice) <= 100 \/ NumberOrZero(yesPrice) >= 9900

\* the callback of markets.filter(...)
PassesFilter(market, existingMarketIds) ==
    /\ ~VolumeTooLow(market.volume)
    /\ ~(market.closed \/ market.resolved)
    /\ ~OutsideBand(market.yesPrice)
    /\ market.id # ""
    /\ market.id \in existingMarketIds

RECURSIVE InsertByVolume(_, _)
\* m put into a list sorted by descending volume, after the entries it does not beat
InsertByVolume(sorted, m) ==
    IF sorted = <<>> THEN <<m>>
    ELSE IF JsLess(ParsedVolume(Head(sorted).volume), ParsedVolume(m.volume))
         THEN <<m>> \o sorted
         ELSE <<Head(sorted)>> \o InsertByVolume(Tail(sorted), m)

RECURSIVE SortByVolumeDesc(_)
\* .sort((a, b) => volB - volA), a stable sort
SortByVolumeDesc(list) ==
    IF list = <<>> THEN <<>>
    ELSE InsertByVolume(SortByVolumeDesc(SubSeq(list, 1, Len(list) - 1)), list[Len(list)])

\* .slice(0, 5)
Slice5(list) == SubSeq(list, 1, IF Len(list) < 5 THEN Len(list) ELSE 5)

\* markets.filter(...).sort(...).slice(0, 5)
ValidMarkets(markets, existingMarketIds) ==
    Slice5(SortByVolumeDesc(SelectSeq(markets, LAMBDA m : PassesFilter(m, existingMarketIds))))

\* the record pushed for one kept market by the filtering revisions (no marketId)
Flattened(market, catalystName, tags) ==
    [Catalyst_Name |-> catalystName, Question |-> market.question,
     Price |-> ToFixed2(NumberOrZero(market.yesPrice)),
     Volume |-> market.volume, EndDate |-> market.endDate, Tags |-> tags]

\* the revision that needs an event title and applies the filtering rules
FilteringKept(event, existingMarketIds) ==
    IF event.title = "" THEN <<>> ELSE ValidMarkets(event.markets, existingMarketIds)

FilteringOut(event, existingMarketIds) ==
    LET kept == FilteringKept(event, existingMarketIds)
    IN  [i \in 1..Len(kept) |-> Flattened(kept[i], event.title, event.tags)]

\* the revision that also accepts a bare market in place of an event
\* if (markets.length === 0 && event.question) markets = [event]
FallbackMarkets(event) ==
    IF event.markets = <<>> /\ event.bare # None /\ event.bare[1].question # ""
    THEN event.bare
    ELSE event.markets

\* the title, else the bare market's question, else the first market's question
FallbackTitle(event) ==
    IF event.title # "" THEN event.title
    ELSE IF FallbackMarkets(event) # <<>> THEN FallbackMarkets(event)[1].question ELSE ""

FallbackKept(event, existingMarketIds) ==
    IF FallbackTitle(event) = "" /\ FallbackMarkets(event) = <<>> THEN <<>>
    ELSE ValidMarkets(FallbackMarkets(event), existingMarketIds)

\* eventTitle || market.question || 'Unknown Event'
FallbackCatalyst(title, market) ==
    IF title # "" THEN title
    ELSE IF market.question # "" THEN market.question ELSE "Unknown Event"

FallbackOut(event, existingMarketIds) ==
    LET kept == FallbackKept(event, existingMarketIds)
    IN  [i \in 1..Len(kept) |->
            Flattened(kept[i], FallbackCatalyst(FallbackTitle(event), kept[i]), event.tags)]

\* the revision that returns marketId: it checks the id and that yesPrice is in [0, 1]
MatchingKeeps(market, existingMarketIds) ==
    /\ market.id # ""
    /\ market.id \in existingMarketIds
    /\ market.yesPrice.k = "num"
    /\ market.yesPrice.v >= 0
    /\ market.yesPrice.v <= 10000

MatchingKept(event, existingMarketIds) ==
    IF event.title = "" THEN <<>>
    ELSE SelectSeq(event.markets, LAMBDA m : MatchingKeeps(m, existingMarketIds))

\* let volume = market.volume || 0; a string that parses becomes the number
MatchingVolume(volume) ==
    CASE volume.k = "str" -> Num(volume.v)
      [] volume.k = "junk" -> volume
      [] OTHER -> Num(NumberOrZero(volume))

MatchingOut(event, existingMarketIds) ==
    LET kept == MatchingKept(event, existingMarketIds)
    IN  [i \in 1..Len(kept) |->
            [marketId |-> kept[i].id, Catalyst_Name |-> event.title,
             Question |-> kept[i].question, Price |-> ToFixed2(kept[i].yesPrice.v),
             Volume |-> MatchingVolume(kept[i].volume), EndDate |-> kept[i].endDate,
             Tags |-> event.tags]]

----------------------------------------------------------------------------
(* normalizeGammaEvent applied to bounded inputs *)

KnownIds == {"k1", "k2", "k3", "k4", "k5", "k6", "k7", "k8", "k9", "k10", "k11", "k12", "k13"}

\* the sub-markets an event is built from: six that meet every rule, with
\* distinct volumes, then one per rule that it breaks
MarketShapes ==
    << GammaMarket("k1", Num(20000), FALSE, FALSE, Num(5000)),
       GammaMarket("k2", Num(30000), FALSE, FALSE, Num(101)),
       GammaMarket("k3", Str(40000), FALSE, FALSE, Num(9899)),
       GammaMarket("k4", Num(50000), FALSE, FALSE, Num(5000)),
       GammaMarket("k5", Num(60000), FALSE, FALSE, Num(2500)),
       GammaMarket("k6", Num(70000), FALSE, FALSE, Num(7500)),
       GammaMarket("k7", Num(19999), FALSE, FALSE, Num(5000)),
       GammaMarket("k8", Num(80000), TRUE, FALSE, Num(5000)),
       GammaMarket("k9", Num(80000), FALSE, TRUE, Num(5000)),
       GammaMarket("k10", Num(20000), FALSE, FALSE, Num(100)),
       GammaMarket("k11", Num(20000), FALSE, FALSE, Num(9900)),
       GammaMarket("u1", Num(80000), FALSE, FALSE, Num(5000)),
       GammaMarket("", Num(80000), FALSE, FALSE, Num(5000)),
       GammaMarket("k12", Junk, FALSE, FALSE, Num(5000)),
       GammaMarket("k13", Num(80000), FALSE, FALSE, Undef) >>

RECURSIVE PickShapes(_, _)
\* the shapes whose index is in chosen, in the order of the catalogue from index i on
PickShapes(chosen, i) ==
    IF i > Len(MarketShapes) THEN <<>>
    ELSE (IF i \in chosen THEN <<MarketShapes[i]>> ELSE <<>>) \o PickShapes(chosen, i + 1)

Reverse(list) == [i \in 1..Len(list) |-> list[Len(list) + 1 - i]]

\* events that bundle up to MaxEventMarkets sub-markets, in either order, and
\* bare markets sent in place of an event
NormInputs ==
    { [event |-> [title |-> t, tags |-> "macro|fed", bare |-> None,
                  markets |-> IF up THEN PickShapes(c, 1) ELSE Reverse(PickShapes(c, 1))],
       ids |-> KnownIds] :
        t \in {"", "E1"}, up \in BOOLEAN,
        c \in {x \in SUBSET (1..Len(MarketShapes)) : Cardinality(x) <= MaxEventMarkets} }
    \cup
    { [event |-> [title |-> t, tags |-> "macro|fed", bare |-> Some(MarketShapes[i]),
                  markets |-> <<>>],
       ids |-> KnownIds] :
        t \in {"", "E1"}, i \in 1..Len(MarketShapes) }

NormInit ==
    /\ now = StartTime
    /\ recentShocks = <<>>
    /\ shockLog = <<>>
    /\ lastCall = NoCall
    /\ normIn \in NormInputs
    /\ normOut = [by |-> "none", kept |-> <<>>, out |-> <<>>]
    /\ StoreIdle

NormalizeFiltering ==
    /\ normOut.by = "none"
    /\ normOut' = [by |-> "filtering",
                   kept |-> FilteringKept(normIn.event, normIn.ids),
                   out |-> FilteringOut(normIn.event, normIn.ids)]
    /\ UNCHANGED <<detectorVars, normIn, storeVars>>

NormalizeFallback ==
    /\ normOut.by = "none"
    /\ normOut' = [by |-> "fallback",
                   kept |-> FallbackKept(normIn.event, normIn.ids),
                   out |-> FallbackOut(normIn.event, normIn.ids)]
    /\ UNCHANGED <<detectorVars, normIn, storeVars>>

NormalizeMatching ==
    /\ normOut.by = "none"
    /\ normOut' = [by |-> "matching",
                   kept |-> MatchingKept(normIn.event, normIn.ids),
                   out |-> MatchingOut(normIn.event, normIn.ids)]
    /\ UNCHANGED <<detectorVars, normIn, storeVars>>

NormNext == NormalizeFiltering \/ NormalizeFallback \/ NormalizeMatching

SpecNorm == NormInit /\ [][NormNext]_vars

----------------------------------------------------------------------------
(* The market store and the upstream batches of a reconciliation cycle *)

Procs == {"cron", "manual"}

\* a document of the markets collection (App: type MarketData, and the id
\* fields an import may have left on it); "" is an absent string
MarketDoc(id, MarketID, marketId, resolveDate, probability, previousProbability, changeDelta) ==
    [id |-> id, MarketID |-> MarketID, marketId |-> marketId, MarketId |-> "",
     gammaMarketId |-> "",
     title |-> "T-" \o id, question |-> "", catalyst |-> "C-" \o id,
     volume |-> Num(25000), tags |-> "crypto", resolveDate |-> resolveDate,
     probability |-> probability, previousProbability |-> previousProbability,
     changeDelta |-> changeDelta, lastUpdated |-> DayMs]

Yesterday == Plain(0)
Today == Plain(DayMs)
Tomorrow == Plain(2 * DayMs)

\* a record with one field replaced
WithField(market, field, value) == [market EXCEPT ![field] = value]

\* the stores a cycle may find: d1 and d2 are open markets with an external
\* id, d3 resolved yesterday, d4 was entered by hand and has no external id
\* or only the generic one; one store holds d2 with the probability 1.5,
\* one holds nothing but the record entered by hand
StoreWith(h, gm, p2) ==
    [d1 |-> MarketDoc("d1", "m1", "", Tomorrow, 4000, h[1], h[2]),
     d2 |-> MarketDoc("d2", "", "m2", Today, p2, None, 0),
     d3 |-> MarketDoc("d3", "m3", "", Yesterday, 4000, None, 0),
     d4 |-> WithField(MarketDoc("d4", "", "", Tomorrow, 4000, None, 0),
                      "gammaMarketId", gm)]

InitialStores ==
    { StoreWith(<<None, 0>>, "", 4449),
      StoreWith(<<Some(3400), 600>>, "", 4449),
      StoreWith(<<Some(3400), 600>>, "m4", 4449),
      StoreWith(<<None, 0>>, "", 15000),
      [d4 |-> MarketDoc("d4", "", "", Tomorrow, 4000, None, 0)] }

Priced(id, price) == GammaMarket(id, Num(50000), FALSE, FALSE, Num(price))

\* the responses of one fetch
Batches(id1, id2, id3, id4) ==
    { <<Priced(id1, 4600),
        WithField(GammaMarket(id2, Num(50000), FALSE, FALSE, Undef), "lastTradePrice",
                  Num(4451)),
        Priced(id3, 9000)>>,
      <<Priced(id1, 4000), Priced(id3, 9000), Priced(id4, 4600)>>,
      <<WithField(Priced(id1, 4600), "tags", "bad"),
        WithField(Priced(id2, 4600), "lastTradePrice", Num(15000)),
        Priced(id3, 9000)>>,
      <<GammaMarket(id1, Num(50000), TRUE, FALSE, Num(4600)), Priced(id2, 15000)>>,
      <<>> }

----------------------------------------------------------------------------
(* marketUpdater: the helpers of a cycle *)

\* isMarketResolved(endDate, resolveDate)
isMarketResolved_never(date, t) == FALSE
isMarketResolved_instant(date, t) == date.kind \in {"plain", "iso"} /\ date.t < t
isMarketResolved(date, t) ==
    CASE date.kind = "plain" -> date.t < (t \div DayMs) * DayMs
      [] date.kind = "iso" -> date.t < t
      [] OTHER -> FALSE

\* data.MarketID || data.marketId || data.MarketId
MatchKey(doc) ==
    IF doc.MarketID # "" THEN doc.MarketID
    ELSE IF doc.marketId # "" THEN doc.marketId ELSE doc.MarketId

\* data.MarketID || data.marketId || data.MarketId || data.gammaMarketId
ExternalId(doc) == IF MatchKey(doc) # "" THEN MatchKey(doc) ELSE doc.gammaMarketId

DocOrder == <<"d1", "d2", "d3", "d4">>

RECURSIVE AddAll(_, _)
\* a Set in insertion order: list with the elements of more added, duplicates dropped
AddAll(list, more) ==
    IF more = <<>> THEN list
    ELSE AddAll(IF \E i \in 1..Len(list) : list[i] = Head(more)
                THEN list ELSE Append(list, Head(more)),
                Tail(more))

Present(store) == SelectSeq(DocOrder, LAMBDA d : d \in DOMAIN store)

RECURSIVE Flatten(_)
Flatten(lists) == IF lists = <<>> THEN <<>> ELSE Head(lists) \o Flatten(Tail(lists))

\* getExistingMarketIds of the revision that matches by external id
ExternalIdsOf(store) ==
    AddAll(<<>>, Flatten([i \in 1..Len(Present(store)) |->
        IF ExternalId(store[Present(store)[i]]) # ""
        THEN <<ExternalId(store[Present(store)[i]])>> ELSE <<>>]))

\* getExistingMarketIds of the revision that goes through normalizeGammaEvent
DocumentIdsOf(store) ==
    AddAll(<<>>, Flatten([i \in 1..Len(Present(store)) |->
        <<store[Present(store)[i]].id>> \o
        (IF store[Present(store)[i]].gammaMarketId # ""
         THEN <<store[Present(store)[i]].gammaMarketId>> ELSE <<>>)]))

getExistingMarketIds(rev, store) ==
    IF rev = "byExternalId" THEN ExternalIdsOf(store) ELSE DocumentIdsOf(store)

DocId(doc) == doc.id

\* the key of the map of existing markets: the external id in one revision,
\* data.id in the other
KeyOf(rev, doc) == IF rev = "byExternalId" THEN MatchKey(doc) ELSE DocId(doc)

\* existingMarketsByMarketId.get(marketId): the last document set under the key
LastWith(snap, rev, key) ==
    LET hits == SelectSeq(Present(snap), LAMBDA d : KeyOf(rev, snap[d]) = key)
    IN  IF hits = <<>> THEN None ELSE Some(snap[hits[Len(hits)]])

\* marketsById.get(marketId): the last fetched market that carries the id
UpstreamFor_any(gamma, marketId) ==
    IF gamma = <<>> THEN None ELSE Some(gamma[Len(gamma)])
UpstreamFor(gamma, marketId) ==
    LET hits == SelectSeq(gamma, LAMBDA g : g.id # "" /\ g.id = marketId)
    IN  IF hits = <<>> THEN None ELSE Some(hits[Len(hits)])

\* the first of lastTradePrice, bestBid, price, yesPrice, yes_price,
\* outcomePrices[0] that is not undefined
PriceValue(g) ==
    CASE g.lastTradePrice.k # "undef" -> g.lastTradePrice
      [] g.bestBid.k # "undef" -> g.bestBid
      [] g.price.k # "undef" -> g.price
      [] g.yesPrice.k # "undef" -> g.yesPrice
      [] g.yes_price.k # "undef" -> g.yes_price
      [] OTHER -> g.outcomePrice0

\* !isNaN(priceNum) && priceNum >= 0 && priceNum <= 1
ValidPrice_any(x) == x.k = "num"
ValidPrice(x) == x.k = "num" /\ x.v >= 0 /\ x.v <= 10000

\* const finalPrice = valid ? priceNum : (existingMarket.probability || 0)
FinalPrice(g, existing) ==
    IF ValidPrice(PriceValue(g)) THEN PriceValue(g).v ELSE existing.probability

\* the normalized record the revision that matches by external id builds
NormalizedFrom(marketId, g, existing) ==
    [marketId |-> marketId, Catalyst_Name |-> existing.catalyst,
     Question |-> g.question, Price |-> ToFixed2(FinalPrice(g, existing)),
     Volume |-> g.volume, EndDate |-> g.endDate,
     Tags |-> IF g.tags = "none" THEN existing.tags ELSE g.tags]

\* const previousProbability = existingMarket.probability || 0
PreviousProbabilityOf_stale(existing) ==
    IF existing.previousProbability = None THEN 0 ELSE existing.previousProbability[1]
PreviousProbabilityOf(existing) == existing.probability

\* updateData of the revision that calls marketRef.update(updateData)
PriceFieldsOnly_withId(normalized, existing, t) ==
    [probability |-> normalized.Price,
     lastUpdated |-> t,
     marketId |-> normalized.marketId,
     previousProbability |-> Some(existing.probability),
     changeDelta |-> normalized.Price - existing.probability]
PriceFieldsOnly(normalized, existing, t) ==
    [probability |-> normalized.Price,
     lastUpdated |-> t,
     previousProbability |-> Some(existing.probability),
     changeDelta |-> normalized.Price - PreviousProbabilityOf(existing)]

\* updateData of the revision that calls marketRef.set({...existingMarket, ...updateData})
AllFields(normalized, existing, t) ==
    [probability |-> normalized.Price,
     lastUpdated |-> t,
     title |-> IF normalized.Question # "" THEN normalized.Question ELSE existing.title,
     catalyst |-> IF normalized.Catalyst_Name # "" THEN normalized.Catalyst_Name
                  ELSE existing.catalyst,
     question |-> IF normalized.Question # "" THEN normalized.Question
                  ELSE existing.question,
     volume |-> normalized.Volume,
     resolveDate |-> IF normalized.EndDate.kind # "none" THEN normalized.EndDate
                     ELSE existing.resolveDate,
     tags |-> IF normalized.Tags # "" THEN normalized.Tags ELSE existing.tags,
     previousProbability |-> Some(existing.probability),
     changeDelta |-> normalized.Price - PreviousProbabilityOf(existing)]

\* the fields of base replaced by those of data
Merged(base, data) ==
    [f \in DOMAIN base |-> IF f \in DOMAIN data THEN data[f] ELSE base[f]]

\* the store after marketRef.update(updateData): the document must exist
AfterUpdate(store, docId, data) ==
    [store EXCEPT ![docId] = Merged(store[docId], data)]

\* the store after marketRef.set({...existingMarket, ...updateData}, {merge: true})
AfterSetMerge(store, docId, existing, data) ==
    [d \in DOMAIN store \cup {docId} |->
        IF d = docId
        THEN (IF d \in DOMAIN store
              THEN Merged(store[d], Merged(existing, data))
              ELSE Merged(existing, data))
        ELSE store[d]]

\* if (Math.abs(newProb - oldProb) >= 0.05) result.shocks++
CountsAsShock(newProb, oldProb) == Abs(newProb - oldProb) >= 500

\* the work list of the loop: the external ids, or the normalized markets of
\* the events (an event whose tags are no array makes tagsToString throw)
WorkOf(rev, ids, gamma) ==
    IF rev = "byExternalId" THEN [i \in 1..Len(ids) |-> [kind |-> "id", marketId |-> ids[i]]]
    ELSE Flatten([i \in 1..Len(gamma) |->
            IF gamma[i].tags = "bad"
            THEN <<[kind |-> "throw", marketId |-> "", g |-> gamma[i]]>>
            ELSE LET out == MatchingOut([title |-> "E-" \o gamma[i].id, tags |-> "macro|fed",
                                         bare |-> None, markets |-> <<gamma[i]>>],
                                        {ids[j] : j \in 1..Len(ids)})
                 IN  [j \in 1..Len(out) |->
                        [kind |-> "norm", marketId |-> out[j].marketId, n |-> out[j],
                         g |-> gamma[i]]]])

----------------------------------------------------------------------------
(* updateMarkets: one reconciliation cycle, a step per await *)

NoResult == [updated |-> 0, errors |-> 0, shocks |-> 0]

IdleCycle ==
    [pc |-> "idle", ids |-> <<>>, snap |-> <<>>, gamma |-> <<>>, work |-> <<>>, i |-> 1,
     result |-> NoResult, pending |-> None, startedAt |-> 0,
     attempted |-> {}, failed |-> {}, fatal |-> FALSE, checked |-> FALSE,
     persisted |-> 0, idsFailed |-> FALSE, upstream |-> <<>>, trouble |-> "none",
     fetched |-> FALSE, wrote |-> <<>>, shocked |-> {}]

Skip == [kind |-> "skip"]

\* the body of the loop over existingMarketIds, up to the call of updateMarket
OutcomeByExternalId(item, c, t) ==
    LET e == LastWith(c.snap, "byExternalId", item.marketId)
        g == UpstreamFor(c.gamma, item.marketId)
    IN  IF e = None THEN Skip
        ELSE IF e[1].id = "" THEN Skip
        ELSE IF isMarketResolved(e[1].resolveDate, t) THEN Skip
        ELSE IF g = None THEN Skip
        ELSE IF g[1].closed \/ g[1].resolved THEN Skip
        ELSE IF /\ ~ValidPrice(PriceValue(g[1]))
                /\ ~(e[1].probability >= 0 /\ e[1].probability <= 10000) THEN Skip
        ELSE IF g[1].tags = "bad" THEN [kind |-> "throw", who |-> e[1].id]
        ELSE [kind |-> "update", existing |-> e[1], g |-> g[1],
              data |-> PriceFieldsOnly(NormalizedFrom(item.marketId, g[1], e[1]), e[1], t)]

\* the body of the loops over the events and their normalized markets
OutcomeByDocumentId(item, c, t) ==
    IF item.kind = "throw" THEN [kind |-> "throw", who |-> item.g.id]
    ELSE LET e == LastWith(c.snap, "byDocumentId", item.marketId)
         IN  IF e = None THEN Skip
             ELSE [kind |-> "update", existing |-> e[1], g |-> item.g,
                   data |-> AllFields(item.n, e[1], t)]

Outcome(rev, item, c, t) ==
    IF rev = "byExternalId" THEN OutcomeByExternalId(item, c, t)
    ELSE OutcomeByDocumentId(item, c, t)

\* a record that threw or whose write failed: count it and go on with the next
RecordFailed_abort(c, who) ==
    [c EXCEPT !.result.errors = @ + 1, !.failed = @ \cup {who},
              !.attempted = @ \cup {who}, !.pending = None, !.pc = "done"]
RecordFailed(c, who) ==
    [c EXCEPT !.result.errors = @ + 1, !.failed = @ \cup {who},
              !.attempted = @ \cup {who}, !.pending = None, !.i = @ + 1, !.pc = "loop"]

StartCycle(p) ==
    /\ cyc[p].pc \in {"idle", "done"}
    /\ cycles < MaxCycles
    /\ cycles' = cycles + 1
    /\ recentShocks' = cleanupOldShocksList(recentShocks, now)
    /\ cyc' = [cyc EXCEPT ![p] = [IdleCycle EXCEPT !.pc = "ids", !.startedAt = now]]
    /\ UNCHANGED <<now, shockLog, lastCall, normVars, revision, marketDocs, alerts,
                   applied, faults>>

\* if (existingMarketIds.size === 0) return result
AfterIds_goOn(ids) == "snapshot"
AfterIds(ids) == IF ids = <<>> THEN "done" ELSE "snapshot"

LoadIds(p) ==
    LET ids == getExistingMarketIds(revision, marketDocs)
    IN  /\ cyc[p].pc = "ids"
        /\ cyc' = [cyc EXCEPT ![p].ids = ids, ![p].pc = AfterIds(ids)]
        /\ UNCHANGED <<detectorVars, normVars, revision, marketDocs, alerts, applied,
                       cycles, faults>>

\* getFirestore() or the query throws inside getExistingMarketIds, which
\* catches it and returns the empty set
LoadIdsFail(p) ==
    /\ cyc[p].pc = "ids"
    /\ faults < MaxFaults
    /\ faults' = faults + 1
    /\ cyc' = [cyc EXCEPT ![p].idsFailed = TRUE, ![p].pc = "done"]
    /\ UNCHANGED <<detectorVars, normVars, revision, marketDocs, alerts, applied, cycles>>

LoadSnapshot(p) ==
    /\ cyc[p].pc = "snapshot"
    /\ cyc' = [cyc EXCEPT ![p].snap = marketDocs, ![p].pc = "fetch"]
    /\ UNCHANGED <<detectorVars, normVars, revision, marketDocs, alerts, applied,
                   cycles, faults>>

\* the catch at the end of updateMarkets
Fatal(c) == [c EXCEPT !.result.errors = @ + 1, !.fatal = TRUE, !.pending = None, !.pc = "done"]

LoadSnapshotFail(p) ==
    /\ cyc[p].pc = "snapshot"
    /\ faults < MaxFaults
    /\ faults' = faults + 1
    /\ cyc' = [cyc EXCEPT ![p] = Fatal(@)]
    /\ UNCHANGED <<detectorVars, normVars, revision, marketDocs, alerts, applied, cycles>>

FetchGamma(p, batch) ==
    /\ cyc[p].pc = "fetch"
    /\ cyc' = [cyc EXCEPT ![p].gamma = batch,
                          ![p].fetched = TRUE,
                          ![p].work = WorkOf(revision, cyc[p].ids, batch),
                          ![p].i = 1,
                          ![p].pc = IF batch = <<>> THEN "done" ELSE "loop"]
    /\ UNCHANGED <<detectorVars, normVars, revision, marketDocs, alerts, applied,
                   cycles, faults>>

\* one turn of the loop, up to the await inside updateMarket
ProcessRecord(p) ==
    LET c == cyc[p]
    IN  /\ c.pc = "loop"
        /\ IF c.i > Len(c.work)
           THEN /\ cyc' = [cyc EXCEPT ![p].pc = "alert"]
                /\ UNCHANGED recentShocks
           ELSE LET o == Outcome(revision, c.work[c.i], c, now)
                IN  CASE o.kind = "skip" ->
                           /\ cyc' = [cyc EXCEPT ![p].i = @ + 1]
                           /\ UNCHANGED recentShocks
                      [] o.kind = "throw" ->
                           /\ cyc' = [cyc EXCEPT ![p] = RecordFailed(@, o.who)]
                           /\ UNCHANGED recentShocks
                      [] OTHER ->
                           /\ recentShocks' =
                                detectShockList(recentShocks, o.existing.id,
                                    PreviousProbabilityOf(o.existing), o.data.probability, now)
                           /\ cyc' = [cyc EXCEPT
                                ![p].attempted = @ \cup {o.existing.id},
                                ![p].shocked =
                                    IF detectShockResult(o.existing.id,
                                            PreviousProbabilityOf(o.existing),
                                            o.data.probability, now) = None
                                    THEN @ ELSE @ \cup {o.existing.id},
                                ![p].pending = Some(
                                    [doc |-> o.existing.id, existing |-> o.existing,
                                     data |-> o.data, g |-> o.g,
                                     shock |-> detectShockResult(o.existing.id,
                                        PreviousProbabilityOf(o.existing),
                                        o.data.probability, now)]),
                                ![p].pc = "write"]
        /\ UNCHANGED <<now, shockLog, lastCall, normVars, revision, marketDocs, alerts,
                       applied, cycles, faults>>

\* the write of updateMarket succeeds: updateMarket returns true
WriteSucceeds(p) ==
    LET c == cyc[p]
        w == c.pending[1]
    IN  /\ c.pc = "write"
        /\ revision = "byExternalId" => w.doc \in DOMAIN marketDocs
        /\ marketDocs' = IF revision = "byExternalId"
                         THEN AfterUpdate(marketDocs, w.doc, w.data)
                         ELSE AfterSetMerge(marketDocs, w.doc, w.existing, w.data)
        /\ applied' = [applied EXCEPT ![w.doc] = Some(w.g)]
        /\ cyc' = [cyc EXCEPT
                ![p].result.updated = @ + 1,
                ![p].result.shocks =
                    IF CountsAsShock(w.data.probability, PreviousProbabilityOf(w.existing))
                    THEN @ + 1 ELSE @,
                ![p].wrote = Append(@, [doc |-> w.doc, data |-> w.data,
                                        before |-> IF w.doc \in DOMAIN marketDocs
                                                   THEN Some(marketDocs[w.doc])
                                                   ELSE None]),
                ![p].pending = None, ![p].i = @ + 1, ![p].pc = "loop"]
        /\ UNCHANGED <<detectorVars, normVars, revision, alerts, cycles, faults>>

\* the write throws: updateMarket catches it and returns false
WriteFails(p) ==
    /\ cyc[p].pc = "write"
    /\ faults < MaxFaults
    /\ faults' = faults + 1
    /\ cyc' = [cyc EXCEPT ![p] = RecordFailed(@, cyc[p].pending[1].doc)]
    /\ UNCHANGED <<detectorVars, normVars, revision, marketDocs, alerts, applied, cycles>>

\* alertRef.set(alert): a document with the same id is replaced
AfterAlertSet(docs, alert) == {a \in docs : a.id # alert.id} \cup {alert}

CheckAlert(p) ==
    LET alert == checkShockAlertResult(recentShocks, now)
    IN  /\ cyc[p].pc = "alert"
        /\ alerts' = IF alert = None THEN alerts ELSE AfterAlertSet(alerts, alert[1])
        /\ recentShocks' = checkShockAlertList(recentShocks, now)
        /\ cyc' = [cyc EXCEPT ![p].checked = TRUE,
                              ![p].persisted = IF alert = None THEN 0 ELSE 1,
                              ![p].pc = "done"]
        /\ UNCHANGED <<now, shockLog, lastCall, normVars, revision, marketDocs, applied,
                       cycles, faults>>

AlertWriteFails(p) ==
    /\ cyc[p].pc = "alert"
    /\ checkShockAlertResult(recentShocks, now) # None
    /\ faults < MaxFaults
    /\ faults' = faults + 1
    /\ recentShocks' = checkShockAlertList(recentShocks, now)
    /\ cyc' = [cyc EXCEPT ![p] = Fatal(@)]
    /\ UNCHANGED <<now, shockLog, lastCall, normVars, revision, marketDocs, alerts,
                   applied, cycles>>

\* time passes between two cycles
CycleTick ==
    /\ now + TickMs <= StartTime + MaxCycleTicks * TickMs
    /\ \A p \in Procs : cyc[p].pc \in {"idle", "done"}
    /\ now' = now + TickMs
    /\ UNCHANGED <<recentShocks, shockLog, lastCall, normVars, storeVars>>

\* POST /api/update-markets: updateMarkets catches every exception, so the
\* handler always answers res.json({success: true, ...result, timestamp})
UpdateMarketsResponse(result) ==
    [status |-> 200, success |-> TRUE, updated |-> result.updated,
     errors |-> result.errors, shocks |-> result.shocks]

\* four shocks recorded by earlier cycles, or none
EarlierShocks ==
    {<<>>, [i \in 1..4 |-> MakeShock("d" \o ToString(i), 4000, 4600, StartTime)]}

Revisions == {"byExternalId", "byDocumentId"}

Init ==
    /\ now = StartTime
    /\ recentShocks \in EarlierShocks
    /\ shockLog = <<>>
    /\ lastCall = NoCall
    /\ NormIdle
    /\ revision \in Revisions
    /\ marketDocs \in InitialStores
    /\ alerts = {}
    /\ cyc = [p \in Procs |-> IdleCycle]
    /\ applied = [d \in {"d1", "d2", "d3", "d4"} |-> None]
    /\ cycles = 0
    /\ faults = 0

UpstreamBatches ==
    IF revision = "byExternalId" THEN Batches("m1", "m2", "m3", "m4")
    ELSE Batches("d1", "d2", "d3", "d4")

\* the scheduled cycles, one after the other
Next ==
    \/ StartCycle("cron")
    \/ LoadIds("cron")
    \/ LoadIdsFail("cron")
    \/ LoadSnapshot("cron")
    \/ LoadSnapshotFail("cron")
    \/ \E batch \in UpstreamBatches : FetchGamma("cron", batch)
    \/ ProcessRecord("cron")
    \/ WriteSucceeds("cron")
    \/ WriteFails("cron")
    \/ CheckAlert("cron")
    \/ AlertWriteFails("cron")
    \/ CycleTick

Spec == Init /\ [][Next]_vars

----------------------------------------------------------------------------
(* The cycles next to the client's clearAllData *)

\* clearAllData: a batch that deletes every market document the client holds
ClearAllData ==
    /\ DOMAIN marketDocs # {}
    /\ marketDocs' = <<>>
    /\ UNCHANGED <<detectorVars, normVars, revision, alerts, cyc, applied, cycles, faults>>

\* marketRef.update(updateData) on a document that is gone: the call
\* rejects, updateMarket catches it and returns false
WriteNotFound(p) ==
    /\ cyc[p].pc = "write"
    /\ revision = "byExternalId"
    /\ cyc[p].pending[1].doc \notin DOMAIN marketDocs
    /\ cyc' = [cyc EXCEPT ![p] = RecordFailed(@, cyc[p].pending[1].doc)]
    /\ UNCHANGED <<detectorVars, normVars, revision, marketDocs, alerts, applied, cycles,
                   faults>>

NextClear ==
    \/ Next
    \/ ClearAllData
    \/ WriteNotFound("cron")

SpecClear == Init /\ [][NextClear]_vars

----------------------------------------------------------------------------
(* fetchGammaMarkets: the cycles against an upstream that fails *)

\* what goes wrong between upstream and the fetch: nothing; a 404 for the
\* first market on its own; a 5xx for every request; no market found by id
\* and a bulk body of no known shape; no market found by id and a sound bulk
Troubles == {"none", "notFound", "serverError", "envelope", "bulkOnly"}

\* the shapes of a bulk body: an array of markets, an array of events,
\* {events: [...]}, {markets: [...]}
Envelopes == {"markets", "events", "eventsObject", "marketsObject"}

\* the response to GET /markets/{id}
ReplyById(batch, trouble, id) ==
    IF trouble = "serverError" THEN [status |-> 500, body |-> None]
    ELSE IF \/ UpstreamFor(batch, id) = None
            \/ trouble \in {"envelope", "bulkOnly"}
            \/ (trouble = "notFound" /\ batch # <<>> /\ id = batch[1].id)
         THEN [status |-> 404, body |-> None]
         ELSE [status |-> 200, body |-> UpstreamFor(batch, id)]

\* the response to GET /markets
BulkReply(batch, trouble, envelope) ==
    IF trouble = "serverError" THEN [status |-> 500, envelope |-> "other", items |-> <<>>]
    ELSE [status |-> 200,
          envelope |-> IF trouble = "envelope" THEN "other" ELSE envelope,
          items |-> batch]

\* fetchMarketById: the market of a 2xx response, else null
fetchMarketById_placeholder(id, reply) ==
    IF reply.status = 200 THEN reply.body ELSE Some(Priced(id, 0))
fetchMarketById(id, reply) ==
    IF reply.status = 200 THEN reply.body ELSE None

\* the bulk branch: nothing unless the response is 2xx and of a known shape
FetchBulk(reply) ==
    IF reply.status # 200 THEN <<>>
    ELSE IF reply.envelope \in Envelopes THEN reply.items ELSE <<>>

\* fetchGammaMarkets: by id first where the revision does so, the bulk
\* listing when no market came back by id
fetchGammaMarkets(rev, ids, batch, trouble, envelope) ==
    LET byId == Flatten([i \in 1..Len(ids) |->
                    fetchMarketById(ids[i], ReplyById(batch, trouble, ids[i]))])
    IN  IF rev = "byExternalId" /\ byId # <<>> THEN byId
        ELSE FetchBulk(BulkReply(batch, trouble, envelope))

FetchThroughTrouble(p, batch, trouble, envelope) ==
    LET got == fetchGammaMarkets(revision, cyc[p].ids, batch, trouble, envelope)
    IN  /\ cyc[p].pc = "fetch"
        /\ cyc' = [cyc EXCEPT ![p].gamma = got,
                              ![p].fetched = TRUE,
                              ![p].upstream = batch,
                              ![p].trouble = trouble,
                              ![p].work = WorkOf(revision, cyc[p].ids, got),
                              ![p].i = 1,
                              ![p].pc = IF got = <<>> THEN "done" ELSE "loop"]
        /\ UNCHANGED <<detectorVars, normVars, revision, marketDocs, alerts, applied,
                       cycles, faults>>

\* a store that answers every request, and no shocks from earlier cycles
FetchInit ==
    /\ now = StartTime
    /\ recentShocks = <<>>
    /\ shockLog = <<>>
    /\ lastCall = NoCall
    /\ NormIdle
    /\ revision \in Revisions
    /\ marketDocs = StoreWith(<<Some(3400), 600>>, "", 4449)
    /\ alerts = {}
    /\ cyc = [p \in Procs |-> IdleCycle]
    /\ applied = [d \in {"d1", "d2", "d3", "d4"} |-> None]
    /\ cycles = 0
    /\ faults = 0

FetchNext ==
    \/ StartCycle("cron")
    \/ LoadIds("cron")
    \/ LoadSnapshot("cron")
    \/ \E batch \in UpstreamBatches : \E trouble \in Troubles :
        \E envelope \in IF revision = "byExternalId" THEN Envelopes
                        ELSE {"events", "eventsObject"} :
            FetchThroughTrouble("cron", batch, trouble, envelope)
    \/ ProcessRecord("cron")
    \/ WriteSucceeds("cron")
    \/ CheckAlert("cron")
    \/ CycleTick

SpecFetch == FetchInit /\ [][FetchNext]_vars

----------------------------------------------------------------------------
(* Claims about the detector, checked under SpecDetector *)

\* the entries of list that are at most 15 minutes old at time t
YoungIn(list, t) == {i \in 1..Len(list) : t - list[i].timestamp <= 900000}

\* C1: checkShockAlert returns an alert if and only if at least 5 of the
\* retained shocks have a timestamp within the last 15 minutes, and the
\* alert's shockCount is exactly that number; with 4 or fewer it returns nothing.
C1_AlertIffFiveInWindow ==
    lastCall.op = "checkShockAlert" =>
        LET n == Cardinality(YoungIn(lastCall.before, lastCall.at))
        IN  /\ (lastCall.ret # None) <=> (n >= 5)
            /\ (lastCall.ret # None) => lastCall.ret[1].shockCount = n

\* an alert was returned for five retained shocks recorded at different times
C1_Witness ==
    /\ lastCall.op = "checkShockAlert"
    /\ lastCall.ret # None
    /\ lastCall.ret[1].shockCount = 5
    /\ lastCall.before[1].timestamp < lastCall.before[5].timestamp

C4_AgedOutShocksNeverCount ==
    (lastCall.op = "checkShockAlert" /\ lastCall.ret # None) =>
        Cardinality(YoungIn(shockLog, lastCall.at)) >= 5

\* five shocks are still retained, fewer than five of them are young enough,
\* and the check returned nothing
C4_Witness ==
    /\ lastCall.op = "checkShockAlert"
    /\ Len(lastCall.before) = 5
    /\ Cardinality(YoungIn(shockLog, lastCall.at)) < 5
    /\ lastCall.ret = None

\* C16: checkShockAlert never modifies the shock list: the list after the
\* call is the list before it, whether or not an alert is returned.
C16_CheckLeavesListAlone ==
    lastCall.op = "checkShockAlert" => recentShocks = lastCall.before

\* an alert was returned and the five shocks are still in the list
C16_Witness ==
    /\ lastCall.op = "checkShockAlert"
    /\ lastCall.ret # None
    /\ Len(recentShocks) = 5
    /\ recentShocks = lastCall.before

\* C17: when |new - previous| < 0.05 detectShock returns nothing and leaves
\* the list as it was: nothing appended and nothing pruned, even when the
\* list holds entries older than the window.
C17_SmallMoveLeavesListAlone ==
    (lastCall.op = "detectShock" /\ Abs(lastCall.new - lastCall.previous) < 500) =>
        /\ lastCall.ret = None
        /\ recentShocks = lastCall.before

\* a move of 0.0499 was ignored while the list held a shock older than the window
C17_Witness ==
    /\ lastCall.op = "detectShock"
    /\ lastCall.new = 4499
    /\ lastCall.previous = 4000
    /\ lastCall.before # <<>>
    /\ lastCall.before[1].timestamp < lastCall.at - SHOCK_WINDOW_MS
    /\ recentShocks = lastCall.before

\* C18: the window of an alert runs from the oldest qualifying shock to now:
\* windowStart is the smallest timestamp among the alert's shocks and
\* windowEnd is the time of the call.
C18_WindowBounds ==
    (lastCall.op = "checkShockAlert" /\ lastCall.ret # None) =>
        /\ lastCall.ret[1].windowEnd = lastCall.at
        /\ \E i \in 1..Len(lastCall.ret[1].shocks) :
            lastCall.ret[1].shocks[i].timestamp = lastCall.ret[1].windowStart
        /\ \A i \in 1..Len(lastCall.ret[1].shocks) :
            lastCall.ret[1].shocks[i].timestamp >= lastCall.ret[1].windowStart

----------------------------------------------------------------------------
(* Claims about normalizeGammaEvent, checked under SpecNorm *)

\* C10: normalizeGammaEvent retains a sub-market only if volume >= 20000, it
\* is neither closed nor resolved, 0.01 < yes-price < 0.99 strictly, and its
\* id is present and in the known-id set.
C10_FilterCorrectness ==
    normOut.by # "none" =>
        \A i \in 1..Len(normOut.kept) :
            LET m == normOut.kept[i]
            IN  /\ m.volume.k \in {"num", "str"}
                /\ m.volume.v >= 20000
                /\ ~m.closed
                /\ ~m.resolved
                /\ m.yesPrice.k = "num"
                /\ m.yesPrice.v > 100
                /\ m.yesPrice.v < 9900
                /\ m.id # ""
                /\ m.id \in normIn.ids

\* the filtering rules as the specification words them
MeetsRules(m, ids) ==
    /\ m.volume.k \in {"num", "str"}
    /\ m.volume.v >= 20000
    /\ ~m.closed
    /\ ~m.resolved
    /\ m.yesPrice.k = "num"
    /\ m.yesPrice.v > 100
    /\ m.yesPrice.v < 9900
    /\ m.id # ""
    /\ m.id \in ids

\* C11: for one event normalizeGammaEvent returns at most 5 records, and when
\* more than 5 sub-markets pass the filters it returns exactly the 5 of
\* highest volume, in descending order of volume.
C11_TopFiveByVolume ==
    (normOut.by # "none" /\ normIn.event.title # "") =>
        /\ Len(normOut.out) <= 5
        /\ LET all == normIn.event.markets
               passing == {i \in 1..Len(all) : MeetsRules(all[i], normIn.ids)}
           IN  Cardinality(passing) > 5 =>
                /\ Len(normOut.kept) = 5
                /\ \A i \in 1..Len(normOut.kept) : MeetsRules(normOut.kept[i], normIn.ids)
                /\ \A i \in 1..(Len(normOut.kept) - 1) :
                    normOut.kept[i].volume.v > normOut.kept[i + 1].volume.v
                /\ \A j \in passing : \A i \in 1..Len(normOut.kept) :
                    all[j].volume.v > normOut.kept[i].volume.v
                    => \E k \in 1..Len(normOut.kept) : normOut.kept[k] = all[j]

----------------------------------------------------------------------------
(* Claims about the reconciliation cycle, checked under Spec *)

\* C3: a shock alert is persisted at most once per threshold crossing: a
\* later cycle that adds no new shock while the same shocks are still in the
\* window persists no further alert document, so no two alert documents
\* list the same shocks.
C3_AlertOncePerCrossing ==
    \A a \in alerts : \A b \in alerts : a.shocks = b.shocks => a.id = b.id

Descriptive(doc) ==
    <<doc.title, doc.question, doc.catalyst, doc.volume, doc.tags, doc.resolveDate>>

\* C5: field isolation: a reconciliation update leaves title, question,
\* catalyst, volume, tags and resolveDate of every market record as they were.
C5_FieldIsolation ==
    [][\A d \in DOMAIN marketDocs :
        d \in DOMAIN marketDocs' /\ Descriptive(marketDocs'[d]) = Descriptive(marketDocs[d])]_vars

BeforeToday(date, t) == date.kind = "plain" /\ date.t < (t \div DayMs) * DayMs

\* C6: past-date protection: a record whose resolve date is before the
\* current calendar day is left unchanged by every step of a cycle.
C6_PastDateProtection ==
    [][\A d \in DOMAIN marketDocs :
        BeforeToday(marketDocs[d].resolveDate, now) => marketDocs'[d] = marketDocs[d]]_vars

\* C7: delta suppression: an update whose new probability is within 0.001 of
\* the stored one keeps the stored previousProbability and changeDelta.
C7_DeltaSuppression ==
    [][\A d \in DOMAIN marketDocs :
        (/\ marketDocs'[d] # marketDocs[d]
         /\ Abs(marketDocs'[d].probability - marketDocs[d].probability) < 10)
        => /\ marketDocs'[d].previousProbability = marketDocs[d].previousProbability
           /\ marketDocs'[d].changeDelta = marketDocs[d].changeDelta]_vars

\* the update about to be written re-applies the upstream record that the
\* last successful update of the same document applied
Reapplies(p) ==
    /\ cyc[p].pc = "write"
    /\ applied[cyc[p].pending[1].doc] = Some(cyc[p].pending[1].g)

\* C8: per-record idempotence: applying the same upstream record a second
\* time writes the probability the first run stored, computes a zero delta
\* and detects no shock.
C8_Idempotent ==
    \A p \in Procs :
        Reapplies(p) =>
            /\ cyc[p].pending[1].data.probability = marketDocs[cyc[p].pending[1].doc].probability
            /\ cyc[p].pending[1].data.changeDelta = 0
            /\ cyc[p].pending[1].shock = None

C8_Witness ==
    \E p \in Procs :
        /\ Reapplies(p)
        /\ cycles = 2
        /\ cyc[p].pending[1].existing.changeDelta # 0
        /\ cyc[p].pending[1].data.changeDelta = 0

\* the records of the work list that reach the price extraction
Matched(c) ==
    {i \in 1..Len(c.work) : Outcome(revision, c.work[i], c, c.startedAt).kind # "skip"}

\* a cycle that returned with exactly one failed record and no other failure
OneRecordFailed(c) ==
    /\ c.pc = "done"
    /\ c.work # <<>>
    /\ ~c.fatal
    /\ Cardinality(c.failed) = 1

\* C9: partial-failure resilience: when exactly one of the N matched records
\* of a cycle fails, the cycle still runs to its end, counts one error and
\* N-1 updates, and the other N-1 records carry the update.
C9_PartialFailure ==
    \A p \in Procs :
        OneRecordFailed(cyc[p]) =>
            /\ cyc[p].checked
            /\ cyc[p].result.errors = 1
            /\ cyc[p].result.updated = Cardinality(Matched(cyc[p])) - 1
            /\ \A i \in Matched(cyc[p]) :
                LET o == Outcome(revision, cyc[p].work[i], cyc[p], cyc[p].startedAt)
                IN  (o.kind = "update" /\ o.existing.id \notin cyc[p].failed)
                    => /\ marketDocs[o.existing.id].lastUpdated = cyc[p].startedAt
                       /\ marketDocs[o.existing.id].probability = o.data.probability

C9_Witness ==
    \E p \in Procs :
        /\ OneRecordFailed(cyc[p])
        /\ revision = "byExternalId"
        /\ Cardinality(Matched(cyc[p])) >= 2
        /\ cyc[p].result.updated >= 1

\* C12: the reconciliation path never creates a market record that is not
\* persisted and never deletes one: no step of a cycle changes the set of
\* keys of the market store.
C12_KeySetUnchanged ==
    [][cyc' # cyc => DOMAIN marketDocs' = DOMAIN marketDocs]_vars

ExternalIdFields(doc) == <<doc.MarketID, doc.marketId, doc.MarketId, doc.gammaMarketId>>

Unmatched(c) ==
    {d \in DOMAIN c.snap :
        /\ KeyOf(revision, c.snap[d]) # ""
        /\ ~\E i \in 1..Len(c.gamma) : c.gamma[i].id = KeyOf(revision, c.snap[d])}

\* C14: a persisted record whose id has no match in the upstream batch is
\* left unchanged and counts as no error, and the cycle still goes through
\* all the other records.
C14_UnmatchedLeftAlone ==
    \A p \in Procs :
        (cyc[p].pc \in {"loop", "write", "alert", "done"} /\ cyc[p].gamma # <<>>) =>
            /\ \A d \in Unmatched(cyc[p]) :
                /\ marketDocs[d] = cyc[p].snap[d]
                /\ d \notin cyc[p].attempted
                /\ d \notin cyc[p].failed
            /\ (cyc[p].pc \in {"alert", "done"} /\ ~cyc[p].fatal)
               => cyc[p].i > Len(cyc[p].work)

C14_Witness ==
    \E p \in Procs :
        /\ cyc[p].pc = "done"
        /\ revision = "byExternalId"
        /\ "d2" \in Unmatched(cyc[p])
        /\ cyc[p].result.updated >= 1
        /\ cyc[p].result.errors = 0

\* a fetched market that is open, priced and well-formed carries the id
OpenUpstream(gamma, id) ==
    \E i \in 1..Len(gamma) :
        /\ gamma[i].id = id
        /\ ~gamma[i].closed
        /\ ~gamma[i].resolved
        /\ gamma[i].tags # "bad"

\* C15: a persisted record is matched against upstream exactly when it
\* exposes an external-id field (MarketID, marketId, MarketId or
\* gammaMarketId, in that order): a record with one is updated when upstream
\* returns that id, a record with none is skipped without error.
C15_EligibleIffExternalId ==
    \A p \in Procs :
        (cyc[p].pc = "done" /\ cyc[p].checked /\ cyc[p].result.errors = 0) =>
            \A d \in DOMAIN cyc[p].snap :
                /\ (/\ ExternalId(cyc[p].snap[d]) # ""
                    /\ OpenUpstream(cyc[p].gamma, ExternalId(cyc[p].snap[d]))
                    /\ ~isMarketResolved(cyc[p].snap[d].resolveDate, cyc[p].startedAt))
                   => d \in cyc[p].attempted
                /\ ExternalId(cyc[p].snap[d]) = "" => d \notin cyc[p].attempted

\* C19: within one cycle the alert check comes only after every record of
\* the work list has been processed, and a cycle that has records to
\* reconcile persists exactly one alert document when the window qualifies
\* and none otherwise.
C19_OneAlertPerQualifyingCycle ==
    \A p \in Procs :
        /\ cyc[p].checked => cyc[p].i > Len(cyc[p].work)
        /\ (cyc[p].pc = "done" /\ ~cyc[p].fatal /\ cyc[p].ids # <<>>)
           => cyc[p].persisted =
                IF checkShockAlertResult(recentShocks, cyc[p].startedAt) # None
                THEN 1 ELSE 0

\* C20: a cycle-level failure is never hidden: when the storage cannot be
\* initialised during a cycle, the trigger receives a failure outcome, a
\* result with errors >= 1 or a response with success false, and not a
\* clean success with every counter zero.
C20_FailureNotHidden ==
    \A p \in Procs :
        (cyc[p].pc = "done" /\ (cyc[p].idsFailed \/ cyc[p].fatal)) =>
            \/ cyc[p].result.errors >= 1
            \/ ~UpdateMarketsResponse(cyc[p].result).success

\* no price field of the upstream record holds a number in [0, 1]
NoUsablePrice(g) ==
    \A f \in {"lastTradePrice", "bestBid", "price", "yesPrice", "yes_price", "outcomePrice0"} :
        ~(g[f].k = "num" /\ g[f].v >= 0 /\ g[f].v <= 10000)

\* the documents of the snapshot matched by an open upstream record that has
\* no usable probability, the stored probability being no fallback either
Malformed(c) ==
    {d \in DOMAIN c.snap :
        /\ KeyOf(revision, c.snap[d]) # ""
        /\ ~(c.snap[d].probability >= 0 /\ c.snap[d].probability <= 10000)
        /\ (revision = "byExternalId" => ~isMarketResolved(c.snap[d].resolveDate, c.startedAt))
        /\ \E i \in 1..Len(c.gamma) :
            /\ c.gamma[i].id = KeyOf(revision, c.snap[d])
            /\ ~c.gamma[i].closed
            /\ ~c.gamma[i].resolved
            /\ c.gamma[i].tags # "bad"
            /\ NoUsablePrice(c.gamma[i])}

\* C21: a matched record with no usable probability after every fallback is
\* skipped, counts as one error, stays unchanged in the store, and the cycle
\* goes on with the next record.
C21_MalformedCountsAsError ==
    \A p \in Procs :
        (cyc[p].pc = "done" /\ cyc[p].checked) =>
            \A d \in Malformed(cyc[p]) :
                /\ marketDocs[d] = cyc[p].snap[d]
                /\ d \in cyc[p].failed
                /\ cyc[p].result.errors >= 1

\* the ids upstream answered with a market: those of the 2xx responses by
\* id, or those of a sound bulk body when no response by id was 2xx
Answered(c) ==
    LET byId == {c.ids[i] : i \in 1..Len(c.ids)} \cap
                {id \in {c.upstream[i].id : i \in 1..Len(c.upstream)} :
                    ReplyById(c.upstream, c.trouble, id).status = 200}
    IN  IF revision = "byExternalId" /\ byId # {} THEN byId
        ELSE IF c.trouble \in {"serverError", "envelope"} THEN {}
        ELSE {c.upstream[i].id : i \in 1..Len(c.upstream)}

\* the documents whose upstream market the fetch lost to a failure
LostToTrouble(c) ==
    {d \in DOMAIN c.snap :
        /\ c.trouble # "none"
        /\ \E i \in 1..Len(c.upstream) : c.upstream[i].id = KeyOf(revision, c.snap[d])
        /\ KeyOf(revision, c.snap[d]) \notin Answered(c)}

\* C22: a transient upstream failure (non-2xx response, unrecognised
\* envelope, 404 for one id) counts as no data for the item: the cycle goes
\* on to its end, the record of the item is not changed and no error is
\* counted for it.
C22_UpstreamFailureIsNoData ==
    \A p \in Procs :
        /\ ~cyc[p].fatal
        /\ cyc[p].pc \in {"loop", "write", "alert", "done"} =>
            /\ \A d \in LostToTrouble(cyc[p]) :
                /\ marketDocs[d] = cyc[p].snap[d]
                /\ d \notin cyc[p].attempted
                /\ d \notin cyc[p].failed
            /\ cyc[p].result.errors = Cardinality(cyc[p].failed)
            /\ cyc[p].result.errors <=
                Cardinality({i \in 1..Len(cyc[p].upstream) : cyc[p].upstream[i].tags = "bad"})

\* a 404 for one market left its record alone while another was updated
C22_Witness ==
    \E p \in Procs :
        /\ cyc[p].pc = "done"
        /\ cyc[p].trouble = "notFound"
        /\ "d1" \in LostToTrouble(cyc[p])
        /\ cyc[p].result.updated >= 1
        /\ cyc[p].result.errors = 0

MaxImports == 2

\* const MAX_BATCH_SIZE = 490
MAX_BATCH_SIZE == 490

\* .substring(0, 50) of the cleaned title
ID_TITLE_LEN == 50

HourMs == 60 * 60 * 1000

\* a title is the sequence of its characters
ImportTitles == { <<"U", "p", "?">>, <<"u", "p", "!">>, <<"u", "p", "2">> }

\* a plain day, a timestamp late in the evening of that day, nothing
ImportDates == { Plain(2 * DayMs), Iso(2 * DayMs + 23 * HourMs), NoDate }

\* 0.40 and 46 (a percentage)
ImportProbabilities == { Num(4000), Num(460000) }

ImportItems ==
    [title : {Some(t) : t \in ImportTitles} \cup {None},
     date : ImportDates,
     probability : ImportProbabilities]

\* the offset of the browser's time zone from UTC
ZoneOffsets == { 0, 2 * HourMs }

\* /[^a-z0-9]/gi
IsAlphaNumeric(c) == c \in {"U", "P", "u", "p", "2"}

toLowerCase(c) == CASE c = "U" -> "u" [] c = "P" -> "p" [] OTHER -> c

RECURSIVE Joined(_)
Joined(chars) ==
    IF chars = <<>> THEN "" ELSE Head(chars) \o Joined(Tail(chars))

\* String(title).replace(/[^a-z0-9]/gi, '-').toLowerCase().substring(0, 50)
cleanTitle(title) ==
    LET replaced == [i \in 1..Len(title) |->
                        IF IsAlphaNumeric(title[i]) THEN title[i] ELSE "-"]
        lowered == [i \in 1..Len(replaced) |-> toLowerCase(replaced[i])]
    IN SubSeq(lowered, 1, IF Len(lowered) < ID_TITLE_LEN THEN Len(lowered)
                          ELSE ID_TITLE_LEN)

\* toLocalISOString(new Date(dateVal)): the calendar day in the local zone
toLocalISOString(t, zone) == Plain(((t + zone) \div DayMs) * DayMs)

\* the resolve date normalizeMarketData settles on ('' when there is none)
ImportResolveDate(dateVal, zone) ==
    CASE dateVal.kind = "plain" -> dateVal
      [] dateVal.kind = "iso" -> toLocalISOString(dateVal.t, zone)
      [] OTHER -> NoDate

\* a probability above 1 is read as a percentage
ImportProbability(raw) ==
    IF raw.k = "num"
    THEN (IF raw.v > 10000 THEN raw.v \div 100 ELSE raw.v)
    ELSE 0

\* `n8n-${cleanTitle}-${resolveDate}`
ContentId(title, resolveDate) ==
    "n8n-" \o Joined(cleanTitle(title)) \o "-" \o ToString(resolveDate.t \div DayMs)

\* a variant whose id carries the serial number of the import
normalizeMarketData_serial(item, zone) ==
    IF item.title = None \/ ImportResolveDate(item.date, zone).kind = "none"
    THEN None
    ELSE Some([id |-> ContentId(item.title[1], ImportResolveDate(item.date, zone))
                        \o "-" \o ToString(cycles),
               title |-> item.title[1],
               resolveDate |-> ImportResolveDate(item.date, zone),
               probability |-> ImportProbability(item.probability),
               source |-> "n8n"])

normalizeMarketData(item, zone) ==
    IF item.title = None \/ ImportResolveDate(item.date, zone).kind = "none"
    THEN None
    ELSE Some([id |-> ContentId(item.title[1], ImportResolveDate(item.date, zone)),
               title |-> item.title[1],
               resolveDate |-> ImportResolveDate(item.date, zone),
               probability |-> ImportProbability(item.probability),
               source |-> "n8n"])

\* finalData of handleImportN8n for one normalized item, against the
\* markets the client holds
ImportFinalData(normalized, markets, t) ==
    LET exists == normalized.id \in DOMAIN markets
        existing == markets[normalized.id]
        delta == IF exists THEN normalized.probability - existing.probability ELSE 0
        changed == exists /\ Abs(delta) > 10
    IN [id |-> normalized.id,
        title |-> normalized.title,
        resolveDate |-> normalized.resolveDate,
        probability |-> normalized.probability,
        source |-> normalized.source,
        lastUpdated |-> t,
        previousProbability |->
            IF ~exists THEN None
            ELSE IF changed THEN Some(existing.probability)
            ELSE existing.previousProbability,
        changeDelta |-> IF exists /\ ~changed THEN existing.changeDelta ELSE delta]

\* batch.set(marketRef, finalData, {merge: true}) for every item in turn
RECURSIVE ImportAll(_, _, _, _, _, _)
ImportAll(items, zone, markets, store, t, count) ==
    IF items = <<>> THEN store
    ELSE IF count >= MAX_BATCH_SIZE
    THEN ImportAll(Tail(items), zone, markets, store, t, count)
    ELSE LET normalized == normalizeMarketData(Head(items), zone)
         IN IF normalized = None
            THEN ImportAll(Tail(items), zone, markets, store, t, count)
            ELSE ImportAll(Tail(items), zone, markets,
                           AfterSetMerge(store, normalized[1].id,
                                         ImportFinalData(normalized[1], markets, t),
                                         <<>>),
                           t, count + 1)

\* the record keys the items of one import address
RECURSIVE ImportKeys(_, _)
ImportKeys(items, zone) ==
    IF items = <<>> THEN <<>>
    ELSE LET normalized == normalizeMarketData(Head(items), zone)
         IN <<IF normalized = None THEN None ELSE Some(normalized[1].id)>>
            \o ImportKeys(Tail(items), zone)

\* one item, or two titled items with the same date and different prices
ImportBatches ==
    {<<a>> : a \in ImportItems}
        \cup {pair \in {x \in ImportItems : x.title # None /\ x.probability = Num(4000)}
                        \X {x \in ImportItems : x.title # None
                                /\ x.probability = Num(460000)} :
                    pair[1].date = pair[2].date}

\* handleImportN8n on a pasted array
HandleImportN8n(items) ==
    /\ cycles < MaxImports
    /\ cycles' = cycles + 1
    /\ marketDocs' = ImportAll(items, normIn.zone, marketDocs, marketDocs, now, 0)
    /\ normIn' = [normIn EXCEPT !.items = items]
    /\ normOut' = [by |-> "import", kept |-> items, out |-> ImportKeys(items, normIn.zone)]
    /\ applied' = applied \o
                    [i \in 1..Len(items) |->
                        [item |-> items[i], key |-> ImportKeys(items, normIn.zone)[i]]]
    /\ UNCHANGED <<detectorVars, revision, alerts, cyc, faults>>

ImportInit ==
    /\ now = StartTime
    /\ recentShocks = <<>>
    /\ shockLog = <<>>
    /\ lastCall = NoCall
    /\ normIn \in [items : {<<>>}, zone : ZoneOffsets]
    /\ normOut = [by |-> "none", kept |-> <<>>, out |-> <<>>]
    /\ revision = "none"
    /\ marketDocs = <<>>
    /\ alerts = {}
    /\ cyc = <<>>
    /\ applied = <<>>
    /\ cycles = 0
    /\ faults = 0

ImportNext == \E items \in ImportBatches : HandleImportN8n(items)

SpecImport == ImportInit /\ [][ImportNext]_vars

\* C24: normalizeMarketData gives the same title and resolve date the same
\* local id on every call, so an item that was imported before addresses
\* the record key it addressed then, and importing it again adds no record
C24_IdempotentIdentity ==
    /\ \A i, j \in 1..Len(applied) :
        (applied[i].item.title = applied[j].item.title
            /\ applied[i].item.date = applied[j].item.date)
        => applied[i].key = applied[j].key
    /\ \A i \in 1..Len(applied) :
        applied[i].key # None => applied[i].key[1] \in DOMAIN marketDocs
    /\ Cardinality(DOMAIN marketDocs)
        = Cardinality({applied[i].key : i \in 1..Len(applied)} \ {None})

\* the same item imported in two imports, one record
C24_Witness ==
    /\ cycles = 2
    /\ Len(applied) = 2
    /\ applied[1].item = applied[2].item
    /\ applied[1].item.date.kind = "iso"
    /\ applied[1].key # None
    /\ Cardinality(DOMAIN marketDocs) = 1

\* ---------------------------------------------------------------------
\* A scheduled cycle and a manually triggered one in the same process
\* ---------------------------------------------------------------------

RaceStore == StoreWith(<<Some(3400), 600>>, "", 4449)

\* upstream moves the first market to 0.46, or to 0.52
RaceBatches ==
    IF revision = "byExternalId" THEN {<<Priced("m1", 4600)>>, <<Priced("m1", 5200)>>}
    ELSE {<<Priced("d1", 4600)>>, <<Priced("d1", 5200)>>}

\* time passes while cycles are under way
RaceTick ==
    /\ now + TickMs <= StartTime + MaxCycleTicks * TickMs
    /\ now' = now + TickMs
    /\ UNCHANGED <<recentShocks, shockLog, lastCall, normVars, storeVars>>

RaceInit ==
    /\ now = StartTime
    /\ recentShocks = <<>>
    /\ shockLog = <<>>
    /\ lastCall = NoCall
    /\ NormIdle
    /\ revision \in Revisions
    /\ marketDocs = RaceStore
    /\ alerts = {}
    /\ cyc = [p \in Procs |-> IdleCycle]
    /\ applied = [d \in {"d1", "d2", "d3", "d4"} |-> None]
    /\ cycles = 0
    /\ faults = 0

\* cron.schedule and POST /api/update-markets both await updateMarkets();
\* the awaits of one call interleave with those of the other
RaceNext ==
    \/ \E p \in Procs :
        \/ StartCycle(p)
        \/ LoadIds(p)
        \/ LoadSnapshot(p)
        \/ \E batch \in RaceBatches : FetchGamma(p, batch)
        \/ ProcessRecord(p)
        \/ WriteSucceeds(p)
        \/ CheckAlert(p)
    \/ RaceTick

SpecRace == RaceInit /\ [][RaceNext]_vars

\* C25: with a scheduled and a manual cycle overlapping, one move of a
\* market from p0 to p1 is in the shared shock list at most once
C25_OneShockPerMove ==
    \A i, j \in 1..Len(recentShocks) :
        (/\ recentShocks[i].marketId = recentShocks[j].marketId
         /\ recentShocks[i].previousProbability = recentShocks[j].previousProbability
         /\ recentShocks[i].newProbability = recentShocks[j].newProbability)
        => i = j

\* C26: the shocks counter of a finished cycle is the number of shocks the
\* detector appended during the cycle, and a record whose write failed is
\* not among them
C26_CounterMatchesDetector ==
    \A p \in Procs :
        cyc[p].pc = "done" =>
            /\ cyc[p].result.shocks = Cardinality(cyc[p].shocked)
            /\ cyc[p].shocked \cap cyc[p].failed = {}

\* the price fields of an upstream market in the order they are tried
PriceFieldsInOrder(g) ==
    <<g.lastTradePrice, g.bestBid, g.price, g.yesPrice, g.yes_price, g.outcomePrice0>>

UsablePrices(g) == SelectSeq(PriceFieldsInOrder(g), ValidPrice)

\* C27: the price written for a record is the first of the price fields, in
\* priority order, whose value lies in [0,1]; only when no field has such a
\* value is the stored probability used
C27_FirstUsablePriceWins ==
    \A p \in Procs :
        (revision = "byExternalId" /\ cyc[p].pc = "write") =>
            LET w == cyc[p].pending[1]
            IN  w.data.probability =
                    IF UsablePrices(w.g) # <<>> THEN ToFixed2(UsablePrices(w.g)[1].v)
                    ELSE ToFixed2(w.existing.probability)

\* the writes of reconciliation so far, as <<cycle, position>> pairs
RecordWrites == {pk \in Procs \X (1..2) : pk[2] <= Len(cyc[pk[1]].wrote)}

WriteAt(pk) == cyc[pk[1]].wrote[pk[2]]

\* C28: in every state, also with two cycles interleaved, every record
\* that reconciliation updated has changeDelta = probability -
\* previousProbability, where previousProbability is the probability that
\* was stored just before the write
C28_WritesAllOrNothing ==
    /\ \A pk \in RecordWrites :
        marketDocs[WriteAt(pk).doc].changeDelta
            = marketDocs[WriteAt(pk).doc].probability
                - marketDocs[WriteAt(pk).doc].previousProbability[1]
    /\ \A pk \in RecordWrites :
        /\ WriteAt(pk).data.previousProbability = Some(WriteAt(pk).before[1].probability)
        /\ WriteAt(pk).data.changeDelta
            = WriteAt(pk).data.probability - WriteAt(pk).before[1].probability

PriceFieldNames == {"probability", "previousProbability", "changeDelta", "lastUpdated"}

\* C29: after two cycles have both written the same document, its four
\* price fields are the four one of the cycles wrote, and every other field
\* is as it was before the cycles
C29_LastWriterWinsUnmixed ==
    (/\ \A p \in Procs : cyc[p].pc = "done" /\ Len(cyc[p].wrote) = 1
     /\ cyc["cron"].wrote[1].doc = cyc["manual"].wrote[1].doc)
    => LET d == cyc["cron"].wrote[1].doc
       IN  /\ \E p \in Procs :
                \A f \in PriceFieldNames : marketDocs[d][f] = cyc[p].wrote[1].data[f]
           /\ \A f \in DOMAIN RaceStore[d] \ PriceFieldNames :
                marketDocs[d][f] = RaceStore[d][f]

\* ---------------------------------------------------------------------
\* Cycles over records whose resolve dates are of every kind
\* ---------------------------------------------------------------------

Unparseable == [kind |-> "junk", t |-> 0]

\* d1 carries a timestamp, d2 is due today, d3 was due yesterday, d4 has
\* no date or one that cannot be parsed
DatedStore(stamp, other) ==
    [d1 |-> MarketDoc("d1", "m1", "", stamp, 4000, None, 0),
     d2 |-> MarketDoc("d2", "", "m2", Today, 4000, None, 0),
     d3 |-> MarketDoc("d3", "m3", "", Yesterday, 4000, None, 0),
     d4 |-> MarketDoc("d4", "m4", "", other, 4000, None, 0)]

\* the timestamp is an hour old, or due in the evening
DatedStores ==
    { DatedStore(Iso(StartTime - HourMs), NoDate),
      DatedStore(Iso(StartTime + 6 * HourMs), Unparseable) }

DatedBatches ==
    { <<Priced("m1", 4600), Priced("m2", 4600), Priced("m3", 9000), Priced("m4", 4600)>>,
      <<Priced("m1", 5200), Priced("m2", 5200), Priced("m3", 5200), Priced("m4", 5200)>> }

\* eleven hours pass between two cycles
LaterThatDay ==
    /\ now + 11 * HourMs <= StartTime + MaxCycleTicks * 11 * HourMs
    /\ \A p \in Procs : cyc[p].pc \in {"idle", "done"}
    /\ now' = now + 11 * HourMs
    /\ UNCHANGED <<recentShocks, shockLog, lastCall, normVars, storeVars>>

DatedInit ==
    /\ now = StartTime
    /\ recentShocks = <<>>
    /\ shockLog = <<>>
    /\ lastCall = NoCall
    /\ NormIdle
    /\ revision = "byExternalId"
    /\ marketDocs \in DatedStores
    /\ alerts = {}
    /\ cyc = [p \in Procs |-> IdleCycle]
    /\ applied = [d \in {"d1", "d2", "d3", "d4"} |-> None]
    /\ cycles = 0
    /\ faults = 0

DatedNext ==
    \/ StartCycle("cron")
    \/ LoadIds("cron")
    \/ LoadSnapshot("cron")
    \/ \E batch \in DatedBatches : FetchGamma("cron", batch)
    \/ ProcessRecord("cron")
    \/ WriteSucceeds("cron")
    \/ CheckAlert("cron")
    \/ LaterThatDay

SpecDated == DatedInit /\ [][DatedNext]_vars

\* the records of the snapshot the loop of a cycle is through with
DecidedRecords(c) ==
    {d \in DOMAIN c.snap :
        \E k \in 1..Len(c.work) :
            /\ k < c.i
            /\ LastWith(c.snap, revision, c.work[k].marketId) = Some(c.snap[d])}

StartOfDay(t) == (t \div DayMs) * DayMs

\* C30: the resolved-date check goes by calendar day for a plain date and by
\* the exact instant for a timestamp: a record due today, or at a later
\* instant, or with no date or an unparseable one is updated when upstream
\* has its market; a record due yesterday or at an earlier instant is skipped
C30_DayOrInstant ==
    \A p \in Procs :
        \A d \in DecidedRecords(cyc[p]) :
            LET date == cyc[p].snap[d].resolveDate
                t == cyc[p].startedAt
            IN  /\ (date.kind = "plain" /\ date.t < StartOfDay(t)) => d \notin cyc[p].attempted
                /\ (date.kind = "iso" /\ date.t < t) => d \notin cyc[p].attempted
                /\ (/\ \/ date.kind = "plain" /\ date.t >= StartOfDay(t)
                       \/ date.kind = "iso" /\ date.t >= t
                       \/ date.kind \notin {"plain", "iso"}
                    /\ OpenUpstream(cyc[p].gamma, KeyOf(revision, cyc[p].snap[d])))
                   => d \in cyc[p].attempted

\* late in the day: the record due today and the one without a date are
\* written, the one due yesterday and the one due six hours ago are not
C30_Witness ==
    /\ cyc["cron"].pc = "done"
    /\ cyc["cron"].startedAt = StartTime + 11 * HourMs
    /\ cyc["cron"].snap["d1"].resolveDate = Iso(StartTime + 6 * HourMs)
    /\ cyc["cron"].attempted = {"d2", "d4"}
    /\ Len(cyc["cron"].wrote) = 2
    /\ DecidedRecords(cyc["cron"]) = {"d1", "d2", "d3", "d4"}

\* ---------------------------------------------------------------------
\* The multi-document writes of the client, by the number of documents
\* ---------------------------------------------------------------------

BatchedWrites == {"ingestPanewsEvents", "handleImportN8n", "clearAllData"}

\* the numbers of documents handed to one multi-document write
DocumentCounts ==
    {1, MAX_BATCH_SIZE - 1, MAX_BATCH_SIZE, MAX_BATCH_SIZE + 1, 2 * MAX_BATCH_SIZE,
     2 * MAX_BATCH_SIZE + 1}

NoBatchedWrite ==
    [by |-> "none", kept |-> 0, out |-> <<>>, left |-> 0, batchCount |-> 0, pc |-> "idle"]

\* writeBatch(db) with nothing in it yet
StartBatchedWrite(op, n) ==
    /\ normOut.pc = "idle"
    /\ normIn' = [op |-> op, n |-> n]
    /\ normOut' = [by |-> op, kept |-> n, out |-> <<>>, left |-> n, batchCount |-> 0,
                   pc |-> "loop"]
    /\ UNCHANGED <<detectorVars, storeVars>>

\* one turn of the loop of ingestPanewsEvents over eventsByDate
IngestStep ==
    /\ normOut.by = "ingestPanewsEvents"
    /\ normOut.pc = "loop"
    /\ normOut.left > 0
    /\ normOut' = IF normOut.batchCount >= MAX_BATCH_SIZE
                  THEN [normOut EXCEPT !.out = Append(@, normOut.batchCount),
                                       !.batchCount = 1, !.left = @ - 1]
                  ELSE [normOut EXCEPT !.batchCount = @ + 1, !.left = @ - 1]
    /\ UNCHANGED <<detectorVars, storeVars, normIn>>

\* if (batchCount > 0) await currentBatch.commit()
IngestFinish ==
    /\ normOut.by = "ingestPanewsEvents"
    /\ normOut.pc = "loop"
    /\ normOut.left = 0
    /\ normOut' = [normOut EXCEPT
                    !.out = IF normOut.batchCount > 0 THEN Append(@, normOut.batchCount)
                            ELSE @,
                    !.pc = "done"]
    /\ UNCHANGED <<detectorVars, storeVars, normIn>>

\* one turn of parsed.forEach of handleImportN8n over a valid item
ImportStep ==
    /\ normOut.by = "handleImportN8n"
    /\ normOut.pc = "loop"
    /\ normOut.left > 0
    /\ normOut' = IF normOut.batchCount >= MAX_BATCH_SIZE
                  THEN [normOut EXCEPT !.left = @ - 1]
                  ELSE [normOut EXCEPT !.batchCount = @ + 1, !.left = @ - 1]
    /\ UNCHANGED <<detectorVars, storeVars, normIn>>

\* await batch.commit() after the forEach
ImportFinish ==
    /\ normOut.by = "handleImportN8n"
    /\ normOut.pc = "loop"
    /\ normOut.left = 0
    /\ normOut' = [normOut EXCEPT !.out = <<normOut.batchCount>>, !.pc = "done"]
    /\ UNCHANGED <<detectorVars, storeVars, normIn>>

\* clearAllData: markets.forEach(batch.delete) and one commit
ClearInOneBatch ==
    /\ normOut.by = "clearAllData"
    /\ normOut.pc = "loop"
    /\ normOut' = [normOut EXCEPT !.out = <<normOut.kept>>, !.batchCount = normOut.kept,
                                  !.left = 0, !.pc = "done"]
    /\ UNCHANGED <<detectorVars, storeVars, normIn>>

BatchDone ==
    /\ normOut.pc = "done"
    /\ normOut' = NoBatchedWrite
    /\ UNCHANGED <<detectorVars, storeVars, normIn>>

BatchInit ==
    /\ now = StartTime
    /\ recentShocks = <<>>
    /\ shockLog = <<>>
    /\ lastCall = NoCall
    /\ normIn = [op |-> "none", n |-> 0]
    /\ normOut = NoBatchedWrite
    /\ StoreIdle

BatchNext ==
    \/ \E op \in BatchedWrites : \E n \in DocumentCounts : StartBatchedWrite(op, n)
    \/ IngestStep
    \/ IngestFinish
    \/ ImportStep
    \/ ImportFinish
    \/ ClearInOneBatch
    \/ BatchDone

SpecBatch == BatchInit /\ [][BatchNext]_vars

RECURSIVE SumOf(_)
SumOf(sizes) == IF sizes = <<>> THEN 0 ELSE Head(sizes) + SumOf(Tail(sizes))

\* C31: whatever the number N of documents of a multi-document write, no
\* committed batch holds more than 490 operations and, when the operation
\* is over, the committed batches together hold all N documents
C31_BatchingDiscipline ==
    /\ \A i \in 1..Len(normOut.out) : normOut.out[i] <= MAX_BATCH_SIZE
    /\ normOut.pc = "done" => SumOf(normOut.out) = normOut.kept

\* the step with which a cycle begins
CycleBegins(p) == cyc[p].pc \in {"idle", "done"} /\ cyc'[p].pc = "ids"

\* C32: the step that begins a cycle leaves in the shock list exactly the
\* events that are not older than twice the alert window, and the detector
\* is fed only by a cycle that has begun and is in its loop
C32_CleanupBeforeDetection ==
    [][/\ \A p \in Procs :
            CycleBegins(p) =>
                recentShocks' = SelectSeq(recentShocks,
                    LAMBDA s : s.timestamp >= now - 2 * SHOCK_WINDOW_MS)
       /\ (recentShocks' # recentShocks /\ \A p \in Procs : ~CycleBegins(p))
            => \E p \in Procs : cyc[p].pc = "loop" /\ cyc[p].startedAt = now
      ]_vars

\* a cycle begun eleven hours after the cycle that recorded a shock for d2
C32_Witness ==
    /\ cyc["cron"].pc = "ids"
    /\ cyc["cron"].startedAt = StartTime + 11 * HourMs
    /\ marketDocs["d2"].changeDelta = 600
    /\ marketDocs["d2"].lastUpdated = StartTime
    /\ recentShocks = <<>>

\* C33: right after a detectShock call that returned a shock, every retained
\* event has a timestamp within the last 15 minutes and the shock returned
\* is the last element of the list
C33_AfterShockAllInWindow ==
    (lastCall.op = "detectShock" /\ lastCall.ret # None) =>
        /\ \A i \in 1..Len(recentShocks) :
            /\ recentShocks[i].timestamp >= lastCall.at - SHOCK_WINDOW_MS
            /\ recentShocks[i].timestamp <= lastCall.at
        /\ recentShocks # <<>>
        /\ recentShocks[Len(recentShocks)] = lastCall.ret[1]

\* a shock was returned while the list held an event older than the window
C33_Witness ==
    /\ lastCall.op = "detectShock"
    /\ lastCall.ret # None
    /\ lastCall.before # <<>>
    /\ lastCall.before[1].timestamp < lastCall.at - SHOCK_WINDOW_MS
    /\ Len(recentShocks) < Len(lastCall.before) + 1

\* the events of a list that are not older than the cutoff, in their order
NotOlderThan(list, cutoff) == SelectSeq(list, LAMBDA s : s.timestamp >= cutoff)

\* C34: the shock list is always in non-decreasing order of timestamp, and
\* a pruning from the front leaves exactly the events that are not older
\* than its cutoff
C34_TimeOrderedList ==
    /\ \A i, j \in 1..Len(recentShocks) :
        i < j => recentShocks[i].timestamp <= recentShocks[j].timestamp
    /\ lastCall.op = "cleanupOldShocks" =>
        recentShocks = NotOlderThan(lastCall.before, lastCall.at - 2 * SHOCK_WINDOW_MS)
    /\ (lastCall.op = "detectShock" /\ lastCall.ret # None) =>
        recentShocks = NotOlderThan(Append(lastCall.before, lastCall.ret[1]),
                                    lastCall.at - SHOCK_WINDOW_MS)

\* cleanupOldShocks dropped an old event and kept a younger one
C34_Witness ==
    /\ lastCall.op = "cleanupOldShocks"
    /\ Len(lastCall.before) >= 2
    /\ recentShocks # <<>>
    /\ Len(recentShocks) < Len(lastCall.before)

AlertRaceInit ==
    /\ now = StartTime
    /\ recentShocks = [i \in 1..4 |-> MakeShock("d" \o ToString(i), 4000, 4600, StartTime)]
    /\ shockLog = <<>>
    /\ lastCall = NoCall
    /\ NormIdle
    /\ revision \in Revisions
    /\ marketDocs = RaceStore
    /\ alerts = {}
    /\ cyc = [p \in Procs |-> IdleCycle]
    /\ applied = [d \in {"d1", "d2", "d3", "d4"} |-> None]
    /\ cycles = 0
    /\ faults = 0

SpecAlertRace == AlertRaceInit /\ [][RaceNext]_vars

\* C36: a persisted shock alert is never overwritten: whatever cycles
\* persist alerts, also overlapping ones that check the window at the same
\* clock value, every alert document stays as it was written
C36_AlertNeverOverwritten ==
    [][\A a \in alerts : a \in alerts']_vars

\* ---------------------------------------------------------------------
\* fetchGammaMarkets: the requests it issues, by position in the id array
\* ---------------------------------------------------------------------

\* const batchSize = 10
BATCH_SIZE == 10

\* the lengths of idsArray
IdCounts == {1, BATCH_SIZE, BATCH_SIZE + 1, 2 * BATCH_SIZE + 1}

\* the positions upstream has a market for: none, all, the first, the last
FoundSets(n) == { {}, 1..n, {1}, {n} }

NoFetch ==
    [by |-> "none", pc |-> "idle", i |-> 0, inflight |-> {}, asked |-> {}, got |-> {},
     bulk |-> FALSE]

\* idsArray.slice(i, i + batchSize), as positions
BatchSlice_rest(i, n) == (i + 1)..n
BatchSlice(i, n) == (i + 1)..(IF i + BATCH_SIZE < n THEN i + BATCH_SIZE ELSE n)

StartFetch(n, found) ==
    /\ normOut.pc = "idle"
    /\ normIn' = [n |-> n, found |-> found]
    /\ normOut' = [NoFetch EXCEPT !.by = "fetchGammaMarkets", !.pc = "issue"]
    /\ UNCHANGED <<detectorVars, storeVars>>

\* batch.map(id => fetchMarketById(id)): the requests of one batch go out
IssueBatch ==
    /\ normOut.pc = "issue"
    /\ normOut' = [normOut EXCEPT !.inflight = BatchSlice(normOut.i, normIn.n),
                                  !.asked = @ \cup BatchSlice(normOut.i, normIn.n),
                                  !.pc = "wait"]
    /\ UNCHANGED <<detectorVars, storeVars, normIn>>

\* one fetchMarketById settles, with a market or with null
RequestSettles(k) ==
    /\ normOut.pc = "wait"
    /\ k \in normOut.inflight
    /\ normOut' = [normOut EXCEPT !.inflight = @ \ {k},
                                  !.got = IF k \in normIn.found THEN @ \cup {k} ELSE @]
    /\ UNCHANGED <<detectorVars, storeVars, normIn>>

\* await Promise.all(promises) resumes: next batch, return, or fall back
BatchComplete ==
    /\ normOut.pc = "wait"
    /\ normOut.inflight = {}
    /\ normOut' = IF normOut.i + BATCH_SIZE < normIn.n
                  THEN [normOut EXCEPT !.i = @ + BATCH_SIZE, !.pc = "issue"]
                  ELSE IF normOut.got # {} THEN [normOut EXCEPT !.pc = "done"]
                  ELSE [normOut EXCEPT !.pc = "bulk"]
    /\ UNCHANGED <<detectorVars, storeVars, normIn>>

\* fetch(`${GAMMA_API_BASE}/markets`)
BulkRequest ==
    /\ normOut.pc = "bulk"
    /\ normOut' = [normOut EXCEPT !.bulk = TRUE, !.pc = "done"]
    /\ UNCHANGED <<detectorVars, storeVars, normIn>>

FetchReturns ==
    /\ normOut.pc = "done"
    /\ normOut' = NoFetch
    /\ UNCHANGED <<detectorVars, storeVars, normIn>>

IdFetchInit ==
    /\ now = StartTime
    /\ recentShocks = <<>>
    /\ shockLog = <<>>
    /\ lastCall = NoCall
    /\ normIn = [n |-> 0, found |-> {}]
    /\ normOut = NoFetch
    /\ StoreIdle

IdFetchNext ==
    \/ \E n \in IdCounts : \E found \in FoundSets(n) : StartFetch(n, found)
    \/ IssueBatch
    \/ \E k \in 1..(2 * BATCH_SIZE + 1) : RequestSettles(k)
    \/ BatchComplete
    \/ BulkRequest
    \/ FetchReturns

SpecIdFetch == IdFetchInit /\ [][IdFetchNext]_vars

ReportedPrices == {Num(4600), Num(15000), Num(0 - 500), NaNVal, Junk, Undef}

PriceBatches ==
    LET id1 == IF revision = "byExternalId" THEN "m1" ELSE "d1"
        id2 == IF revision = "byExternalId" THEN "m2" ELSE "d2"
    IN  {<<WithField(Priced(id1, 5200), "yesPrice", x)>> : x \in ReportedPrices}
            \cup {<<Priced(id1, 5200), WithField(Priced(id2, 5200), "bestBid", x)>> :
                    x \in ReportedPrices}

PricesInit ==
    /\ now = StartTime
    /\ recentShocks = <<>>
    /\ shockLog = <<>>
    /\ lastCall = NoCall
    /\ NormIdle
    /\ revision \in Revisions
    /\ marketDocs = RaceStore
    /\ alerts = {}
    /\ cyc = [p \in Procs |-> IdleCycle]
    /\ applied = [d \in {"d1", "d2", "d3", "d4"} |-> None]
    /\ cycles = 0
    /\ faults = 0

PricesNext ==
    \/ StartCycle("cron")
    \/ LoadIds("cron")
    \/ LoadSnapshot("cron")
    \/ \E batch \in PriceBatches : FetchGamma("cron", batch)
    \/ ProcessRecord("cron")
    \/ WriteSucceeds("cron")
    \/ CheckAlert("cron")
    \/ CycleTick

SpecPrices == PricesInit /\ [][PricesNext]_vars

InUnitInterval(store) ==
    \A d \in DOMAIN store : store[d].probability >= 0 /\ store[d].probability <= 10000

\* C38: no step of a reconciliation cycle takes a store whose probabilities
\* all lie in [0,1] to a store with a probability outside [0,1], whatever
\* upstream reports; so a store that starts inside stays inside
C38_ProbabilityStaysInRange ==
    [][InUnitInterval(marketDocs) => InUnitInterval(marketDocs')]_vars

\* upstream reported 1.5 for d1 and the cycle wrote the stored 0.40 again
C38_Witness ==
    /\ cyc["cron"].pc = "done"
    /\ revision = "byExternalId"
    /\ cyc["cron"].gamma[1].yesPrice = Num(15000)
    /\ Len(cyc["cron"].wrote) = 1
    /\ marketDocs["d1"].probability = 4000
    /\ marketDocs["d1"].changeDelta = 0

\* ---------------------------------------------------------------------
\* Cycles whose every call returns in the end
\* ---------------------------------------------------------------------

\* upstream answers with two markets, one of them broken and either stored or
\* unknown to the store, or with nothing
LiveBatches ==
    LET id1 == IF revision = "byExternalId" THEN "m1" ELSE "d1"
        id2 == IF revision = "byExternalId" THEN "m2" ELSE "d2"
        id9 == IF revision = "byExternalId" THEN "m9" ELSE "d9"
    IN  { <<Priced(id1, 4600), WithField(Priced(id2, 4600), "tags", "bad")>>,
          <<Priced(id1, 4600), WithField(Priced(id9, 4600), "tags", "bad")>>,
          <<>> }

LiveInit ==
    /\ now = StartTime
    /\ recentShocks = [i \in 1..4 |-> MakeShock("d" \o ToString(i), 4000, 4600, StartTime)]
    /\ shockLog = <<>>
    /\ lastCall = NoCall
    /\ NormIdle
    /\ revision \in Revisions
    /\ marketDocs = RaceStore
    /\ alerts = {}
    /\ cyc = [p \in Procs |-> IdleCycle]
    /\ applied = [d \in {"d1", "d2", "d3", "d4"} |-> None]
    /\ cycles = 0
    /\ faults = 0

\* a call the scheduled cycle is waiting for returns, with a value or an error
CronCallReturns ==
    \/ LoadIds("cron")
    \/ LoadIdsFail("cron")
    \/ LoadSnapshot("cron")
    \/ LoadSnapshotFail("cron")
    \/ \E batch \in LiveBatches : FetchGamma("cron", batch)
    \/ ProcessRecord("cron")
    \/ WriteSucceeds("cron")
    \/ WriteFails("cron")
    \/ CheckAlert("cron")
    \/ AlertWriteFails("cron")

LiveNext ==
    \/ StartCycle("cron")
    \/ CronCallReturns

SpecLive == LiveInit /\ [][LiveNext]_vars /\ WF_vars(CronCallReturns)

WellFormedResult(result) ==
    /\ result.updated \in Nat
    /\ result.errors \in Nat
    /\ result.shocks \in Nat
    /\ result.shocks <= result.updated

\* when every fetch and every storage call returns in the end, with a value or
\* with an error, a cycle that has begun ends with a result of three counters
C39_CycleTerminates ==
    (cyc["cron"].pc = "ids") ~>
        (cyc["cron"].pc = "done" /\ WellFormedResult(cyc["cron"].result))

\* a cycle that ended although the write of the alert failed
C39_Witness ==
    /\ cyc["cron"].pc = "done"
    /\ cyc["cron"].fatal
    /\ cyc["cron"].result.updated >= 1
    /\ cyc["cron"].result.errors >= 2
    /\ alerts = {}

\* the upstream records of a cycle that match a stored market
MatchedRecords(c) ==
    {i \in 1..Len(c.gamma) : \E j \in 1..Len(c.ids) : c.ids[j] = c.gamma[i].id}

\* C39: a cycle that has ended has counted at most one update or error for
\* each matched record, and one more error for the cycle as a whole:
\* updated + errors <= number of matched records + 1
C39_CountersWithinMatched ==
    cyc["cron"].pc = "done" =>
        cyc["cron"].result.updated + cyc["cron"].result.errors
            <= Cardinality(MatchedRecords(cyc["cron"])) + 1

\* the upstream probability a revision reads from a record
UpstreamProbability(rev, g) ==
    IF rev = "byExternalId" THEN PriceValue(g) ELSE g.yesPrice

\* the records of the running cycle that were written and whose upstream
\* probability was valid
WrittenFromUpstream ==
    {i \in DOMAIN cyc["cron"].wrote :
        LET w == cyc["cron"].wrote[i]
        IN  /\ w.before # None
            /\ applied[w.doc] # None
            /\ ValidPrice(UpstreamProbability(revision, applied[w.doc][1]))}

\* C40: a written probability is the upstream probability rounded to two
\* decimals, changeDelta is that rounded value minus the stored probability,
\* the detector reported a shock for the record exactly when that difference
\* is at least 0.05, and the shocks counter counts exactly those records
C40_RoundedValueEverywhere ==
    LET c == cyc["cron"]
    IN  /\ \A i \in WrittenFromUpstream :
              LET w == c.wrote[i]
                  up == UpstreamProbability(revision, applied[w.doc][1]).v
                  stored == w.before[1].probability
              IN  /\ w.data.probability % 100 = 0
                  /\ Abs(w.data.probability - up) <= 50
                  /\ w.data.changeDelta = w.data.probability - stored
                  /\ (w.doc \in c.shocked)
                        <=> (Abs(w.data.probability - stored) >= SHOCK_THRESHOLD)
        /\ c.result.shocks =
              Cardinality({i \in DOMAIN c.wrote : c.wrote[i].doc \in c.shocked})

\* an upstream probability of more than two decimals was written, and a shock
\* was both reported and counted in the same cycle
C40_Witness ==
    /\ \E i \in WrittenFromUpstream :
          LET w == cyc["cron"].wrote[i]
          IN  /\ UpstreamProbability(revision, applied[w.doc][1]).v % 100 # 0
              /\ w.data.probability % 100 = 0
    /\ cyc["cron"].result.shocks >= 1
    /\ cyc["cron"].shocked # {}

====
